---- MODULE Spec2Model ----
(***************************************************************************)
(* A model of the reading-journal application: the client-side data        *)
(* normalization (src/app/data.ts), the client store and its AI coach      *)
(* operations (App.tsx, hooks/use-ai-coach.ts) and the AI request gateway  *)
(* (server/index.mjs).                                                     *)
(*                                                                         *)
(* JavaScript values are modelled as follows.                              *)
(*  - An identifier-like scalar (an id, an enum member, a timestamp) is a  *)
(*    TLA+ string; Undef stands for undefined/absent and NumTok for a      *)
(*    value of the wrong type (a number where a string is expected).       *)
(*  - A free text is a record [k, lead, body, trail]: for k = "str" it is  *)
(*    the string made of `lead` whitespace characters, then `body`         *)
(*    non-whitespace characters, then `trail` whitespace characters, so    *)
(*    that trim() and slice() are computed on real lengths and the clamp   *)
(*    limits keep the values they have in the source.                      *)
(*  - A value handed to Number() is a record [k, h]: a finite number is    *)
(*    given in halves (h = 2 * value), so that Math.round is computed.     *)
(***************************************************************************)
EXTENDS Integers, Sequences, FiniteSets, TLC

VARIABLES
  \* --- normalization on load (App.tsx useState initializer, data.ts)
  stored,     \* the value held under the user's local-storage key
  raw,        \* what loadJson returned
  norm1,      \* normalizeUserData(raw)
  norm2,      \* normalizeUserData(norm1)
  npc,        \* "stored" -> "loaded" -> "normalized" -> "renormalized"
  clock,      \* the wall clock read by nowISO()
  \* --- the client store (App.tsx `data`, use-ai-coach.ts)
  data,       \* the UserData held in React state (and saved after each change)
  aiBusy,     \* "generate" | "grade" | "null"
  aiErr,      \* the AI coach's error message, or "null"
  inflight,   \* what the pending AI request closed over
  last,       \* history variable: the delete just confirmed, if the last action
              \* was one: what it removed and whether the store it met was consistent
  \* --- the gateway (server/index.mjs), one request at a time
  env,        \* process.env: the provider keys configured on the server
  totalHits,  \* the rate limiter's count for the caller in the current window
  gpc,        \* where the request is: "idle", "origin", "json", "limiter",
              \* "route", "awaiting", "error", "done"
  req,        \* the request being served
  input,      \* what parseGenerateRequest / parseGradeRequest returned
  upstream,   \* the provider call made for the request, if any
  error,      \* the error passed to next(error)
  res,        \* the response sent
  passed,     \* history variable: which middleware has handled the request
  \* --- parseModelJson (server/index.mjs)
  content,    \* the text a provider returned as the model's message
  json,       \* what parseModelJson made of it, once it has run
  \* --- the session (use-auth.ts, App.tsx load and save effects)
  sessionUserId, \* the user logged in, or "null"
  users,      \* the registered users
  blobs,      \* local storage: what is held under each user's data key
  createdBy   \* history variable: the books and chapters each user created

normVars == <<stored, raw, norm1, norm2, npc, clock>>

storeVars == <<data, aiBusy, aiErr, inflight, last>>

gatewayVars == <<env, totalHits, gpc, req, input, upstream, error, res, passed>>

parseVars == <<content, json>>

sessionVars == <<sessionUserId, users, blobs, createdBy>>

vars == <<normVars, storeVars, gatewayVars, parseVars, sessionVars>>

----------------------------------------------------------------------------
(* Bounds of the model.                                                    *)

MaxBooks == 2        \* longest books array drawn
MaxChapters == 2     \* longest chapters array drawn
MaxQas == 1          \* longest qas array drawn
MaxQuestions == 2    \* longest generatedQuestions array drawn
MaxDrafts == 1       \* longest draftAnswers array drawn
MaxFeedback == 1     \* longest feedbackHistory array drawn
MaxResults == 2      \* longest results array of a feedback entry drawn
MaxHistory == 2      \* longest history array drawn
MaxClock == 4        \* the store is followed until the clock shows this: every user
                     \* action and every settled request finds it one later
MaxTokens == 6       \* longest model message drawn, in tokens
MaxRows == 2         \* longest questions / results array of an AI response
MaxOverCap == 1      \* a stored feedback history is drawn up to this many entries
                     \* over its cap

----------------------------------------------------------------------------
(* Generic helpers.                                                        *)

Min(a, b) == IF a < b THEN a ELSE b
Max(a, b) == IF a > b THEN a ELSE b

RECURSIVE SeqsUpTo(_, _)
SeqsUpTo(S, n) ==
  IF n = 0 THEN {<<>>}
  ELSE LET shorter == SeqsUpTo(S, n - 1)
       IN  shorter \cup {Append(s, x) : s \in {t \in shorter : Len(t) = n - 1}, x \in S}

Range(s) == {s[i] : i \in DOMAIN s}

FilterSeq(s, keep(_)) == SelectSeq(s, keep)

MapSeq(s, f(_)) == IF s = <<>> THEN <<>> ELSE [i \in 1..Len(s) |-> f(s[i])]

SliceSeq(s, n) == SubSeq(s, 1, Min(Len(s), n))

----------------------------------------------------------------------------
(* JavaScript scalars.                                                     *)

Undef == "#undefined"
NumTok == "#7"
IsString(v) == v \notin {Undef, NumTok}
\* JavaScript truthiness of a scalar token: undefined and "" are falsy.
Truthy(v) == v \notin {Undef, ""}

(* Texts. *)
Str(a, b, c) == [k |-> "str", lead |-> a, body |-> b, trail |-> c]
EmptyStr == Str(0, 0, 0)
ShortText == Str(0, 3, 0)
UndefText == [k |-> "undefined", lead |-> 0, body |-> 0, trail |-> 0]
NumText == [k |-> "number", lead |-> 0, body |-> 0, trail |-> 0]
IsStringText(s) == s.k = "str"
Length(s) == s.lead + s.body + s.trail
\* s.slice(0, max)
SliceText(s, max) ==
  LET a == Min(s.lead, max)
      b == Min(s.body, max - a)
      c == Min(s.trail, max - a - b)
  IN  Str(a, b, c)
\* s.trim()
TrimText(s) == Str(0, s.body, 0)
\* !s for a text: undefined and "" are falsy, a (non-zero) number is not.
FalsyText(s) == s.k = "undefined" \/ (s.k = "str" /\ Length(s) = 0)
\* s ?? ""
OrEmpty(s) == IF s.k = "undefined" THEN EmptyStr ELSE s

(* Ids. *)
\* A string as an id: `lead` blanks, then the characters called `name`, then
\* `over` more characters.  The name "L" is 120 characters long, and
\* only it is followed by more.
RawId(lead, name, over) == [k |-> "str", lead |-> lead, name |-> name, over |-> over]
NoId == [k |-> "undefined", lead |-> 0, name |-> "", over |-> 0]
\* id.trim()
TrimId(r) == IF r.over = 0 THEN r.name ELSE r.name \o "+"

(* Values handed to Number(). *)
NumH(h) == [k |-> "num", h |-> h]        \* the finite number h/2
Num(n) == NumH(2 * n)
NaNVal == [k |-> "nan", h |-> 0]         \* undefined, "abc", an object
NullVal == [k |-> "null", h |-> 0]       \* Number(null) is 0
TrueVal == [k |-> "true", h |-> 2]       \* Number(true) is 1
NumStr(n) == [k |-> "numstr", h |-> 2 * n]   \* a string of digits: Number("85") is 85
IsFiniteNumber(v) == v.k \in {"num", "null", "true", "numstr"}
ToNumberH(v) == IF v.k \in {"num", "true", "numstr"} THEN v.h ELSE 0
\* Math.round of the number h/2: halves round towards +Infinity.
MathRound(h) == (h + 1) \div 2

----------------------------------------------------------------------------
(* src/app/utils.ts                                                        *)

\* clampStr(s, max): "" for a falsy value, the first max characters of a
\* longer string, and the value itself otherwise (a non-string truthy value
\* has no length and is returned as it is).  It does not trim.
clampStr(s, max) ==
  IF FalsyText(s) THEN EmptyStr
  ELSE IF s.k = "str" /\ Length(s) > max THEN SliceText(s, max)
  ELSE s

\* clampInt(value, min, max, fallback)
clampInt(value, min, max, fallback) ==
  IF ~IsFiniteNumber(value) THEN fallback
  ELSE Min(max, Max(min, MathRound(ToNumberH(value))))

\* nowISO(): the clock as a timestamp string.
nowISO(t) == "now" \o ToString(t)

----------------------------------------------------------------------------
(* src/app/data.ts                                                         *)

QuestionMaxLen == 500
RubricMaxLen == 2000
AnswerMaxLen == 10000
FeedbackTextMaxLen == 2000
FeedbackHistoryCap == 500
ConfigCountMin == 1
ConfigCountMax == 15
ScoreMin == 0
ScoreMax == 100

defaultAICoachConfig == [count |-> 6, difficulty |-> "mixed", style |-> "comprehension"]

isAIDifficulty(v) == v \in {"easy", "medium", "hard", "mixed"}
isAIQuestionStyle(v) == v \in {"comprehension", "critical_thinking", "mixed"}
isKnownHistoryType(v) ==
  v \in {"book_created", "book_updated", "book_deleted",
         "chapter_created", "chapter_updated", "chapter_deleted",
         "qa_created", "qa_updated", "qa_deleted",
         "ai_questions_generated", "ai_answers_graded", "export"}

createEmptyAICoachData ==
  [selectedBookId |-> Undef, selectedChapterId |-> Undef,
   lastConfig |-> defaultAICoachConfig,
   generatedQuestions |-> <<>>, draftAnswers |-> <<>>, feedbackHistory |-> <<>>]

createEmptyUserData ==
  [books |-> <<>>, chapters |-> <<>>, qas |-> <<>>, history |-> <<>>,
   aiCoach |-> createEmptyAICoachData]

(* A raw (parsed JSON) value.  An array field is [arr, items]: arr is      *)
(* Array.isArray of the field.  An array element is a record whose k is    *)
(* "obj", "null" (JSON null) or "prim" (a number or a string); reading a   *)
(* property of null throws a TypeError, reading one of a primitive gives   *)
(* undefined.                                                              *)
Arr(items) == [arr |-> TRUE, items |-> items]
NotArr == [arr |-> FALSE, items |-> <<>>]
IsNullish(e) == e.k = "null"
\* !!e for an array element: null is falsy; an object or a (non-zero,
\* non-empty) primitive is truthy.
TruthyElem(e) == e.k # "null"

\* The array read by `Array.isArray(raw?.f) ? raw.f : []`.
ArrayOrEmpty(isObj, f) == IF isObj /\ f.arr THEN f.items ELSE <<>>

normalizeGeneratedQuestions(items, chapterIds, now) ==
  MapSeq(
    FilterSeq(items, LAMBDA q:
      /\ TruthyElem(q)
      /\ IsString(q.id)
      /\ IsString(q.chapterId)
      /\ q.chapterId \in chapterIds
      /\ IsStringText(q.question)
      /\ Length(TrimText(q.question)) > 0),
    LAMBDA q:
      [k |-> "obj",
       id |-> q.id,
       chapterId |-> q.chapterId,
       question |-> clampStr(q.question, QuestionMaxLen),
       rubric |-> clampStr(OrEmpty(q.rubric), RubricMaxLen),
       createdAt |-> IF q.createdAt = Undef THEN nowISO(now) ELSE q.createdAt,
       difficulty |-> IF isAIDifficulty(q.difficulty) THEN q.difficulty
                      ELSE defaultAICoachConfig.difficulty,
       style |-> IF isAIQuestionStyle(q.style) THEN q.style
                 ELSE defaultAICoachConfig.style])

\* normalizeDraftAnswers without the check that the question still exists.
normalizeDraftAnswersAnyQuestion(items, chapterIds, generatedQuestionIds, now) ==
  MapSeq(
    FilterSeq(items, LAMBDA a:
      /\ TruthyElem(a)
      /\ IsString(a.chapterId)
      /\ a.chapterId \in chapterIds
      /\ IsString(a.questionId)
      /\ IsStringText(a.answer)
      /\ Length(TrimText(a.answer)) > 0),
    LAMBDA a:
      [k |-> "obj",
       chapterId |-> a.chapterId,
       questionId |-> a.questionId,
       answer |-> clampStr(a.answer, AnswerMaxLen),
       updatedAt |-> IF a.updatedAt = Undef THEN nowISO(now) ELSE a.updatedAt])

normalizeDraftAnswers(items, chapterIds, generatedQuestionIds, now) ==
  MapSeq(
    FilterSeq(items, LAMBDA a:
      /\ TruthyElem(a)
      /\ IsString(a.chapterId)
      /\ a.chapterId \in chapterIds
      /\ IsString(a.questionId)
      /\ a.questionId \in generatedQuestionIds
      /\ IsStringText(a.answer)
      /\ Length(TrimText(a.answer)) > 0),
    LAMBDA a:
      [k |-> "obj",
       chapterId |-> a.chapterId,
       questionId |-> a.questionId,
       answer |-> clampStr(a.answer, AnswerMaxLen),
       updatedAt |-> IF a.updatedAt = Undef THEN nowISO(now) ELSE a.updatedAt])

normalizeGradeResults(items) ==
  MapSeq(
    FilterSeq(items, LAMBDA r:
      /\ TruthyElem(r)
      /\ IsString(r.questionId)
      /\ IsStringText(r.question)
      /\ IsStringText(r.studentAnswer)),
    LAMBDA r:
      [k |-> "obj",
       questionId |-> r.questionId,
       question |-> clampStr(r.question, QuestionMaxLen),
       studentAnswer |-> clampStr(r.studentAnswer, AnswerMaxLen),
       score |-> Num(clampInt(r.score, ScoreMin, ScoreMax, 0)),
       feedback |-> clampStr(OrEmpty(r.feedback), FeedbackTextMaxLen),
       idealAnswer |-> clampStr(OrEmpty(r.idealAnswer), FeedbackTextMaxLen)])

\* The feedback history without its cap.
normalizeFeedbackHistoryNoCap(items, bookIds, chapterIds, now) ==
  FilterSeq(
    MapSeq(
      FilterSeq(items, LAMBDA e:
        /\ TruthyElem(e)
        /\ IsString(e.id)
        /\ IsString(e.bookId)
        /\ e.bookId \in bookIds
        /\ IsString(e.chapterId)
        /\ e.chapterId \in chapterIds
        /\ e.results.arr),
      LAMBDA e:
        [k |-> "obj",
         id |-> e.id,
         bookId |-> e.bookId,
         chapterId |-> e.chapterId,
         createdAt |-> IF e.createdAt = Undef THEN nowISO(now) ELSE e.createdAt,
         difficulty |-> IF isAIDifficulty(e.difficulty) THEN e.difficulty
                        ELSE defaultAICoachConfig.difficulty,
         style |-> IF isAIQuestionStyle(e.style) THEN e.style
                   ELSE defaultAICoachConfig.style,
         averageScore |-> Num(clampInt(e.averageScore, ScoreMin, ScoreMax, 0)),
         results |-> Arr(normalizeGradeResults(e.results.items))]),
    LAMBDA e: Len(e.results.items) > 0)

normalizeFeedbackHistory(items, bookIds, chapterIds, now) ==
  SliceSeq(
    FilterSeq(
      MapSeq(
        FilterSeq(items, LAMBDA e:
          /\ TruthyElem(e)
          /\ IsString(e.id)
          /\ IsString(e.bookId)
          /\ e.bookId \in bookIds
          /\ IsString(e.chapterId)
          /\ e.chapterId \in chapterIds
          /\ e.results.arr),
        LAMBDA e:
          [k |-> "obj",
           id |-> e.id,
           bookId |-> e.bookId,
           chapterId |-> e.chapterId,
           createdAt |-> IF e.createdAt = Undef THEN nowISO(now) ELSE e.createdAt,
           difficulty |-> IF isAIDifficulty(e.difficulty) THEN e.difficulty
                          ELSE defaultAICoachConfig.difficulty,
           style |-> IF isAIQuestionStyle(e.style) THEN e.style
                     ELSE defaultAICoachConfig.style,
           averageScore |-> Num(clampInt(e.averageScore, ScoreMin, ScoreMax, 0)),
           results |-> Arr(normalizeGradeResults(e.results.items))]),
      LAMBDA e: Len(e.results.items) > 0),
    FeedbackHistoryCap)

\* chapters.find((ch) => ch.bookId === bookId)?.id
FirstChapterOf(chapters, bookId) ==
  LET own == FilterSeq(chapters, LAMBDA ch: ch.bookId = bookId)
  IN  IF own = <<>> THEN Undef ELSE Head(own).id

\* The selected chapter without the fallback: a pointer that does not
\* resolve is left unset.
normalizeSelectedChapterIdCleared(chapters, selectedBookId, selectedChapterIdRaw) ==
  IF /\ Truthy(selectedBookId)
     /\ Truthy(selectedChapterIdRaw)
     /\ \E i \in DOMAIN chapters :
          chapters[i].bookId = selectedBookId /\ chapters[i].id = selectedChapterIdRaw
  THEN selectedChapterIdRaw
  ELSE Undef

\* The selected chapter looked up among the chapters of every book.
normalizeSelectedChapterIdAnyBook(chapters, selectedBookId, selectedChapterIdRaw) ==
  IF /\ Truthy(selectedBookId)
     /\ Truthy(selectedChapterIdRaw)
     /\ \E i \in DOMAIN chapters : chapters[i].id = selectedChapterIdRaw
  THEN selectedChapterIdRaw
  ELSE IF Truthy(selectedBookId) THEN FirstChapterOf(chapters, selectedBookId)
  ELSE Undef

normalizeSelectedChapterId(chapters, selectedBookId, selectedChapterIdRaw) ==
  IF /\ Truthy(selectedBookId)
     /\ Truthy(selectedChapterIdRaw)
     /\ \E i \in DOMAIN chapters :
          chapters[i].bookId = selectedBookId /\ chapters[i].id = selectedChapterIdRaw
  THEN selectedChapterIdRaw
  ELSE IF Truthy(selectedBookId) THEN FirstChapterOf(chapters, selectedBookId)
  ELSE Undef

normalizeLastConfig(lastConfigRaw) ==
  [count |-> clampInt(lastConfigRaw.count, ConfigCountMin, ConfigCountMax,
                      defaultAICoachConfig.count),
   difficulty |-> IF isAIDifficulty(lastConfigRaw.difficulty) THEN lastConfigRaw.difficulty
                  ELSE defaultAICoachConfig.difficulty,
   style |-> IF isAIQuestionStyle(lastConfigRaw.style) THEN lastConfigRaw.style
             ELSE defaultAICoachConfig.style]

\* The elements whose property is read without a guard: books.map((b) => b.id),
\* chapters.filter((ch) => ... ch.bookId), raw.qas.filter((qa) => ... qa.chapterId).
normalizeThrows(r) ==
  LET isObj == r.k = "obj"
  IN  \/ \E e \in Range(ArrayOrEmpty(isObj, r.books)) : IsNullish(e)
      \/ \E e \in Range(ArrayOrEmpty(isObj, r.chapters)) : IsNullish(e)
      \/ \E e \in Range(ArrayOrEmpty(isObj, r.qas)) : IsNullish(e)

\* normalizeUserData(raw) evaluated at clock `now`: [threw, data].
normalizeUserData(r, now) ==
  LET isObj == r.k = "obj"
      books == ArrayOrEmpty(isObj, r.books)
      bookIds == {b.id : b \in Range(books)}
      chapters == FilterSeq(ArrayOrEmpty(isObj, r.chapters), LAMBDA ch: ch.bookId \in bookIds)
      chapterIds == {ch.id : ch \in Range(chapters)}
      history == FilterSeq(ArrayOrEmpty(isObj, r.history), LAMBDA e:
                   TruthyElem(e) /\ e.k = "obj" /\ isKnownHistoryType(e.type))
      hasAi == isObj /\ r.aiCoach.k = "obj"
      ai == r.aiCoach
      generatedQuestions ==
        normalizeGeneratedQuestions(ArrayOrEmpty(hasAi, ai.generatedQuestions), chapterIds, now)
      generatedQuestionIds == {q.id : q \in Range(generatedQuestions)}
      draftAnswers ==
        normalizeDraftAnswers(ArrayOrEmpty(hasAi, ai.draftAnswers), chapterIds,
                              generatedQuestionIds, now)
      feedbackHistory ==
        normalizeFeedbackHistory(ArrayOrEmpty(hasAi, ai.feedbackHistory), bookIds, chapterIds, now)
      selectedBookId ==
        IF hasAi /\ IsString(ai.selectedBookId) /\ ai.selectedBookId \in bookIds
        THEN ai.selectedBookId ELSE Undef
      selectedChapterIdRaw ==
        IF hasAi /\ IsString(ai.selectedChapterId) THEN ai.selectedChapterId ELSE Undef
      lastConfigRaw ==
        IF hasAi /\ ai.lastConfig.k = "obj" THEN ai.lastConfig
        ELSE [k |-> "obj", count |-> NaNVal, difficulty |-> Undef, style |-> Undef]
  IN  IF normalizeThrows(r)
      THEN [threw |-> TRUE, data |-> createEmptyUserData]
      ELSE [threw |-> FALSE,
            data |->
              [books |-> books,
               chapters |-> chapters,
               qas |-> FilterSeq(ArrayOrEmpty(isObj, r.qas), LAMBDA qa: qa.chapterId \in chapterIds),
               history |-> history,
               aiCoach |->
                 [selectedBookId |-> selectedBookId,
                  selectedChapterId |->
                    normalizeSelectedChapterId(chapters, selectedBookId, selectedChapterIdRaw),
                  lastConfig |-> normalizeLastConfig(lastConfigRaw),
                  generatedQuestions |-> generatedQuestions,
                  draftAnswers |-> draftAnswers,
                  feedbackHistory |-> feedbackHistory]]]

\* A UserData value read as a raw blob (the Partial<UserData> parameter).
ToRaw(d) ==
  [k |-> "obj",
   books |-> Arr(d.books),
   chapters |-> Arr(d.chapters),
   qas |-> Arr(d.qas),
   history |-> Arr(d.history),
   aiCoach |->
     [k |-> "obj",
      selectedBookId |-> d.aiCoach.selectedBookId,
      selectedChapterId |-> d.aiCoach.selectedChapterId,
      lastConfig |-> [k |-> "obj",
                      count |-> Num(d.aiCoach.lastConfig.count),
                      difficulty |-> d.aiCoach.lastConfig.difficulty,
                      style |-> d.aiCoach.lastConfig.style],
      generatedQuestions |-> Arr(d.aiCoach.generatedQuestions),
      draftAnswers |-> Arr(d.aiCoach.draftAnswers),
      feedbackHistory |-> Arr(d.aiCoach.feedbackHistory)]]

\* loadJson(key, fallback): the fallback when nothing is stored or the text
\* does not parse, the parsed value otherwise.
loadJson(st, fallback) ==
  IF st.k \in {"absent", "garbage"} THEN fallback ELSE st.value

----------------------------------------------------------------------------
(* server/index.mjs: configuration and helpers.                            *)

\* toInt(value, fallback)
toInt(value, fallback) ==
  IF ~IsFiniteNumber(value) THEN fallback ELSE MathRound(ToNumberH(value))

\* AI_RATE_LIMIT_MAX is not set in the environment.
RateLimitDefault == 40
RATE_LIMIT_PER_MINUTE == toInt(NaNVal, RateLimitDefault)
PROVIDERS == {"ollama", "openai", "anthropic"}
DEFAULT_OLLAMA_BASE_URL == "http://127.0.0.1:11434"
DEFAULT_MODEL_BY_PROVIDER ==
  [ollama |-> "tinyllama:latest", openai |-> "gpt-4o-mini",
   anthropic |-> "claude-3-5-sonnet-latest"]

\* new HttpError(status, message); any other thrown value is no HttpError.
HttpError(status, message) == [http |-> TRUE, status |-> status, message |-> message]
OtherError(message) == [http |-> FALSE, status |-> 0, message |-> message]
NoError == [http |-> FALSE, status |-> 0, message |-> ""]
Ok(value) == [ok |-> TRUE, value |-> value, error |-> NoError]
Throw(err) == [ok |-> FALSE, value |-> Undef, error |-> err]

\* clampText(value, maxLen): "" for a non-string, else trimmed and cut.
clampText(value, maxLen) ==
  IF ~IsStringText(value) THEN EmptyStr ELSE SliceText(TrimText(value), maxLen)

\* clampText(id, IdMaxLen) of an id: trimmed and cut to the IdMaxLen
\* characters of its name.
IdMaxLen == 120
clampId(r) == IF r.k # "str" THEN "" ELSE r.name

\* The strings drawn for provider, model and base URL, by what trim(),
\* toLowerCase(), the model pattern and new URL() make of them.
LowerTrimmed(v) ==
  CASE v = "OpenAI" -> "openai"
    [] v = " anthropic " -> "anthropic"
    [] OTHER -> v
ModelInputs ==
  {Undef, "", "gpt-4o-mini", "bad model!", "   ", NumTok, "m121"}
BaseUrlInputs == {Undef, "", "http://host:11434/", "ftp://host", "not a url", NumTok}

\* readProvider(value)
readProvider(value) ==
  LET provider == IF IsString(value) THEN LowerTrimmed(value) ELSE ""
  IN  IF provider \notin PROVIDERS
      THEN Throw(HttpError(400, "Provider must be one of: ollama, openai, anthropic."))
      ELSE Ok(provider)

\* sanitizeModel(provider, modelRaw): "m121" is 121 characters of the
\* pattern, "m120" its first 120.
sanitizeModel(provider, modelRaw) ==
  LET chosen == IF Truthy(modelRaw) THEN modelRaw ELSE DEFAULT_MODEL_BY_PROVIDER[provider]
      model == CASE ~IsString(chosen) -> ""
                 [] chosen = "   " -> ""
                 [] chosen = "m121" -> "m120"
                 [] OTHER -> chosen
  IN  IF model = "" THEN Throw(HttpError(400, "Model is required."))
      ELSE IF model = "bad model!"
      THEN Throw(HttpError(400, "Model contains invalid characters."))
      ELSE Ok(model)

\* sanitizeBaseUrl(urlRaw): String(7) is "7", which is no URL.
sanitizeBaseUrl(urlRaw) ==
  LET chosen == IF Truthy(urlRaw) THEN urlRaw ELSE DEFAULT_OLLAMA_BASE_URL
      value == IF chosen = "http://host:11434/" THEN "http://host:11434" ELSE chosen
  IN  IF value \in {"not a url", NumTok}
      THEN Throw(HttpError(400, "Invalid Ollama base URL."))
      ELSE IF value = "ftp://host"
      THEN Throw(HttpError(400, "Ollama base URL must use http or https."))
      ELSE Ok(value)

\* readCount(value)
CountDefault == 6
readCount(value) == Max(ConfigCountMin, Min(ConfigCountMax, toInt(value, CountDefault)))

\* readDifficulty(value), readStyle(value)
readDifficulty(value) ==
  LET difficulty == IF IsString(value) THEN LowerTrimmed(value) ELSE ""
  IN  IF difficulty \in {"easy", "medium", "hard", "mixed"} THEN difficulty ELSE "mixed"
readStyle(value) ==
  LET style == IF IsString(value) THEN LowerTrimmed(value) ELSE ""
  IN  IF style \in {"comprehension", "critical_thinking", "mixed"} THEN style
      ELSE "comprehension"

\* The body as express.json left it: req.body is an object (or an array,
\* which has none of the fields).
NoBody ==
  [k |-> "none", provider |-> Undef, model |-> Undef, ollamaBaseUrl |-> Undef,
   count |-> NaNVal, difficulty |-> Undef, style |-> Undef, answers |-> NotArr]
Body(provider, model, ollamaBaseUrl, count, difficulty, style, answers) ==
  [k |-> "obj", provider |-> provider, model |-> model, ollamaBaseUrl |-> ollamaBaseUrl,
   count |-> count, difficulty |-> difficulty, style |-> style, answers |-> answers]

NoInput ==
  [provider |-> "", model |-> "", ollamaBaseUrl |-> "", count |-> 0,
   difficulty |-> "", style |-> "", answers |-> <<>>]

\* The checks parseGenerateRequest and parseGradeRequest share.
parseCommon(body) ==
  IF body.k \notin {"obj", "array"} THEN Throw(HttpError(400, "Invalid request body."))
  ELSE LET provider == readProvider(body.provider)
           model == sanitizeModel(provider.value, body.model)
           ollamaBaseUrl == sanitizeBaseUrl(body.ollamaBaseUrl)
       IN  IF ~provider.ok THEN provider
           ELSE IF ~model.ok THEN model
           ELSE IF ~ollamaBaseUrl.ok THEN ollamaBaseUrl
           ELSE Ok([NoInput EXCEPT !.provider = provider.value, !.model = model.value,
                                   !.ollamaBaseUrl = ollamaBaseUrl.value])

\* parseGenerateRequest(body)
parseGenerateRequest(body) ==
  LET common == parseCommon(body)
  IN  IF ~common.ok THEN common
      ELSE Ok([common.value EXCEPT !.count = readCount(body.count),
                                   !.difficulty = readDifficulty(body.difficulty),
                                   !.style = readStyle(body.style)])

\* parseGradeRequest(body): the rows with all three fields non-empty.
AnswersMax == 20
AnswerQuestionMaxLen == 700
AnswerRow(questionId, question, studentAnswer) ==
  [k |-> "obj", questionId |-> questionId, question |-> question,
   studentAnswer |-> studentAnswer]
NullAnswerRow == [k |-> "null", questionId |-> NoId, question |-> UndefText,
                  studentAnswer |-> UndefText]
parseAnswers(answersRaw) ==
  FilterSeq(
    MapSeq(SliceSeq(answersRaw, AnswersMax), LAMBDA row:
      [questionId |-> IF row.k = "obj" THEN clampId(row.questionId) ELSE "",
       question |-> IF row.k = "obj" THEN clampText(row.question, AnswerQuestionMaxLen)
                    ELSE EmptyStr,
       studentAnswer |-> IF row.k = "obj" THEN clampText(row.studentAnswer, AnswerMaxLen)
                         ELSE EmptyStr]),
    LAMBDA row: row.questionId # "" /\ Length(row.question) > 0
                  /\ Length(row.studentAnswer) > 0)
parseGradeRequest(body) ==
  LET common == parseCommon(body)
      answers == parseAnswers(IF body.answers.arr THEN body.answers.items ELSE <<>>)
  IN  IF ~common.ok THEN common
      ELSE IF answers = <<>> THEN Throw(HttpError(400, "At least one answer is required."))
      ELSE Ok([common.value EXCEPT !.answers = answers])

\* resolveApiKey(req, provider); readHeader gives "" for a missing header.
KeyMaxLen == 400
readHeader(value) == IF IsStringText(value) THEN value ELSE EmptyStr
\* resolveApiKey with the environment's key taking precedence.
resolveApiKeyEnvFirst(header, environment, provider) ==
  IF provider = "ollama" THEN Ok(EmptyStr)
  ELSE LET keyFromHeader == clampText(readHeader(header), KeyMaxLen)
           keyFromEnv == clampText(OrEmpty(environment[provider]), KeyMaxLen)
           apiKey == IF Length(keyFromEnv) > 0 THEN keyFromEnv ELSE keyFromHeader
       IN  IF Length(apiKey) = 0 THEN Throw(HttpError(400, "Missing API key for provider."))
           ELSE Ok(apiKey)
resolveApiKey(header, environment, provider) ==
  IF provider = "ollama" THEN Ok(EmptyStr)
  ELSE LET keyFromHeader == clampText(readHeader(header), KeyMaxLen)
           keyFromEnv == clampText(OrEmpty(environment[provider]), KeyMaxLen)
           apiKey == IF Length(keyFromHeader) > 0 THEN keyFromHeader ELSE keyFromEnv
       IN  IF Length(apiKey) = 0 THEN Throw(HttpError(400, "Missing API key for provider."))
           ELSE Ok(apiKey)

\* What the provider's reply parsed to: parsed?.questions, parsed?.results.
Parsed(kind, questions, results) == [k |-> kind, questions |-> questions, results |-> results]
ModelQuestion(id, question, rubric) ==
  [k |-> "obj", id |-> id, question |-> question, rubric |-> rubric]
ModelGrade(questionId, score) ==
  [k |-> "obj", questionId |-> questionId, score |-> score, feedback |-> ShortText,
   idealAnswer |-> UndefText]
\* A row that is null: every row?.field is undefined.
NullModelRow ==
  [k |-> "null", id |-> NoId, question |-> UndefText, rubric |-> UndefText,
   questionId |-> NoId, score |-> NaNVal, feedback |-> UndefText, idealAnswer |-> UndefText]

\* normalizeQuestions(parsed, expectedCount): the loop, `out` and `usedIds`
\* as in the code.
RECURSIVE normalizeQuestionsLoop(_, _, _, _)
normalizeQuestionsLoop(rows, out, usedIds, expectedCount) ==
  IF rows = <<>> \/ Len(out) >= expectedCount THEN out
  ELSE LET row == Head(rows)
           question == IF row.k = "obj" THEN clampText(row.question, QuestionMaxLen)
                       ELSE EmptyStr
           given == IF row.k = "obj" THEN clampId(row.id) ELSE ""
           id == IF given = "" \/ given \in usedIds
                 THEN "q" \o ToString(Len(out) + 1) ELSE given
       IN  IF Length(question) = 0
           THEN normalizeQuestionsLoop(Tail(rows), out, usedIds, expectedCount)
           ELSE normalizeQuestionsLoop(
                  Tail(rows),
                  Append(out, [id |-> id, question |-> question,
                               rubric |-> IF row.k = "obj"
                                          THEN clampText(row.rubric, RubricMaxLen)
                                          ELSE EmptyStr]),
                  usedIds \cup {id}, expectedCount)

normalizeQuestions(parsed, expectedCount) ==
  normalizeQuestionsLoop(IF parsed.k = "obj" /\ parsed.questions.arr
                         THEN parsed.questions.items ELSE <<>>,
                         <<>>, {}, expectedCount)

\* The score of a row without the upper bound.
gradeScoreNoUpperBound(score) == Max(ScoreMin, toInt(score, 0))
\* The score of a row: Math.max(0, Math.min(100, toInt(row?.score, 0)))
gradeScore(score) == Max(ScoreMin, Min(ScoreMax, toInt(score, 0)))

\* normalizeGrades(parsed, answers)
normalizeGrades(parsed, answers) ==
  LET rows == IF parsed.k = "obj" /\ parsed.results.arr THEN parsed.results.items ELSE <<>>
      known == {a.questionId : a \in Range(answers)}
      idOf(row) == IF row.k = "obj" THEN clampId(row.questionId) ELSE ""
  IN  MapSeq(
        FilterSeq(rows, LAMBDA row: idOf(row) # "" /\ idOf(row) \in known),
        LAMBDA row:
          [questionId |-> idOf(row),
           score |-> gradeScore(row.score),
           feedback |-> clampText(row.feedback, FeedbackTextMaxLen),
           idealAnswer |-> clampText(row.idealAnswer, FeedbackTextMaxLen)])

\* How a provider call ends: callOllama / callOpenAI / callAnthropic from the
\* fetch on, and parseModelJson.
\* The JSON payload of a provider's answer, as far as providerErrorMessage
\* reads it: its `error`, a string or an object with a `message`.
NoPayload == [k |-> "null", text |-> ""]
ErrorString(text) == [k |-> "string", text |-> text]
ErrorObject(text) == [k |-> "object", text |-> text]
\* Messages a provider may put there: one about the model, and one that
\* quotes the API key it was called with.
ProviderText == "The model does not exist."
KeyEchoText == "Incorrect API key provided: <the key of the request>"

\* providerErrorMessage(payload, fallback): "   " trims to nothing.
providerErrorMessage(payload, fallback) ==
  IF payload.k \in {"string", "object"} /\ payload.text \notin {"", "   "}
  THEN payload.text ELSE fallback

NetworkFailure ==
  [kind |-> "network", status |-> 0, parsed |-> Parsed("null", NotArr, NotArr),
   payload |-> NoPayload]
UpstreamError(status, payload) ==
  [kind |-> "status", status |-> status, parsed |-> Parsed("null", NotArr, NotArr),
   payload |-> payload]
UpstreamStatus(status) == UpstreamError(status, NoPayload)
EmptyContent ==
  [kind |-> "empty", status |-> 200, parsed |-> Parsed("null", NotArr, NotArr),
   payload |-> NoPayload]
InvalidJson ==
  [kind |-> "badjson", status |-> 200, parsed |-> Parsed("null", NotArr, NotArr),
   payload |-> NoPayload]
ModelJson(parsed) ==
  [kind |-> "json", status |-> 200, parsed |-> parsed, payload |-> NoPayload]

RequestFailedText == "Provider request failed (status)."
providerJson(outcome) ==
  CASE outcome.kind = "network" -> Throw(HttpError(502, "Could not reach the provider."))
    [] outcome.kind = "status" ->
         Throw(HttpError(outcome.status,
                         providerErrorMessage(outcome.payload, RequestFailedText)))
    [] outcome.kind = "empty" -> Throw(HttpError(502, "Provider returned an empty response."))
    [] outcome.kind = "badjson" -> Throw(HttpError(502, "Provider did not return valid JSON."))
    [] OTHER -> Ok(outcome.parsed)

\* A request, its response, and the provider call made for it.
Request(origin, method, path, body, apiKeyHeader) ==
  [origin |-> origin, method |-> method, path |-> path, body |-> body,
   apiKeyHeader |-> apiKeyHeader]
NoReq == Request("none", "POST", "none", NoBody, UndefText)
Response(status, kind, items) ==
  [status |-> status, kind |-> kind, items |-> items, message |-> ""]
\* res.status(status).json({ error: message })
ErrorResponse(status, message) ==
  [status |-> status, kind |-> "error", items |-> <<>>, message |-> message]
NoResponse == Response(0, "none", <<>>)
NoReply ==
  [kind |-> "none", status |-> 0, parsed |-> Parsed("null", NotArr, NotArr),
   payload |-> NoPayload]
NoCall ==
  [called |-> FALSE, calls |-> 0, provider |-> "", withKey |-> FALSE,
   apiKey |-> EmptyStr, reply |-> NoReply]
NotPassed == [origin |-> FALSE, json |-> FALSE, limiter |-> FALSE, validation |-> FALSE]
NoEnv == [openai |-> UndefText, anthropic |-> UndefText]

\* No request is being served.
\* parseModelJson has not been given a text.
NoJson == [ok |-> FALSE, value |-> <<>>, error |-> NoError]
ParseIdle ==
  /\ content = <<>>
  /\ json = NoJson

GatewayIdle ==
  /\ env = NoEnv
  /\ totalHits = 0
  /\ gpc = "idle"
  /\ req = NoReq
  /\ input = NoInput
  /\ upstream = NoCall
  /\ error = NoError
  /\ res = NoResponse
  /\ passed = NotPassed
  /\ ParseIdle

----------------------------------------------------------------------------
(* The stored blobs the load is checked on.                                *)

BookObj(id) == [k |-> "obj", id |-> id]
NullBook == [k |-> "null", id |-> Undef]
ChapterObj(id, bookId) == [k |-> "obj", id |-> id, bookId |-> bookId]
NullChapter == [k |-> "null", id |-> Undef, bookId |-> Undef]
QaObj(id, chapterId) == [k |-> "obj", id |-> id, chapterId |-> chapterId]
NullQa == [k |-> "null", id |-> Undef, chapterId |-> Undef]
HistObj(id, type) == [k |-> "obj", id |-> id, type |-> type]
NullHist == [k |-> "null", id |-> Undef, type |-> Undef]
PrimHist == [k |-> "prim", id |-> Undef, type |-> Undef]

GQ(id, chapterId, question) ==
  [k |-> "obj", id |-> id, chapterId |-> chapterId, question |-> question,
   rubric |-> ShortText, createdAt |-> "t0", difficulty |-> "easy", style |-> "comprehension"]
NullGQ ==
  [k |-> "null", id |-> Undef, chapterId |-> Undef, question |-> UndefText,
   rubric |-> UndefText, createdAt |-> Undef, difficulty |-> Undef, style |-> Undef]
\* An object with none of the optional fields and an unknown difficulty.
BareGQ(id, chapterId) ==
  [k |-> "obj", id |-> id, chapterId |-> chapterId, question |-> ShortText,
   rubric |-> UndefText, createdAt |-> Undef, difficulty |-> "nope", style |-> Undef]

Draft(chapterId, questionId, answer) ==
  [k |-> "obj", chapterId |-> chapterId, questionId |-> questionId, answer |-> answer,
   updatedAt |-> "t0"]
NullDraft ==
  [k |-> "null", chapterId |-> Undef, questionId |-> Undef, answer |-> UndefText,
   updatedAt |-> Undef]

Res(questionId, score) ==
  [k |-> "obj", questionId |-> questionId, question |-> ShortText,
   studentAnswer |-> ShortText, score |-> score, feedback |-> ShortText,
   idealAnswer |-> UndefText]
NullRes ==
  [k |-> "null", questionId |-> Undef, question |-> UndefText, studentAnswer |-> UndefText,
   score |-> NaNVal, feedback |-> UndefText, idealAnswer |-> UndefText]

Fb(id, bookId, chapterId, averageScore, results) ==
  [k |-> "obj", id |-> id, bookId |-> bookId, chapterId |-> chapterId,
   createdAt |-> "t0", difficulty |-> "easy", style |-> "comprehension",
   averageScore |-> averageScore, results |-> results]
NullFb ==
  [k |-> "null", id |-> Undef, bookId |-> Undef, chapterId |-> Undef,
   createdAt |-> Undef, difficulty |-> Undef, style |-> Undef,
   averageScore |-> NaNVal, results |-> NotArr]

Config(count, difficulty, style) ==
  [k |-> "obj", count |-> count, difficulty |-> difficulty, style |-> style]
NoConfig == [k |-> "undefined", count |-> NaNVal, difficulty |-> Undef, style |-> Undef]

AiObj(selB, selC, cfg, gqs, drafts, fbs) ==
  [k |-> "obj", selectedBookId |-> selB, selectedChapterId |-> selC, lastConfig |-> cfg,
   generatedQuestions |-> gqs, draftAnswers |-> drafts, feedbackHistory |-> fbs]
NoAi == [k |-> "undefined", selectedBookId |-> Undef, selectedChapterId |-> Undef,
         lastConfig |-> NoConfig, generatedQuestions |-> NotArr, draftAnswers |-> NotArr,
         feedbackHistory |-> NotArr]

Blob(books, chapters, qas, history, ai) ==
  [k |-> "obj", books |-> books, chapters |-> chapters, qas |-> qas,
   history |-> history, aiCoach |-> ai]
\* JSON null or a JSON primitive: every property read of it is undefined.
NonObjectBlob(kind) ==
  [k |-> kind, books |-> NotArr, chapters |-> NotArr, qas |-> NotArr,
   history |-> NotArr, aiCoach |-> NoAi]

GoodRes == Res("g1", Num(85))
BaseAi ==
  AiObj("b1", "c2", Config(Num(6), "easy", "mixed"),
        Arr(<<GQ("g1", "c1", ShortText), GQ("g2", "c2", ShortText)>>),
        Arr(<<Draft("c1", "g1", ShortText), Draft("c2", "g2", ShortText)>>),
        Arr(<<Fb("f1", "b1", "c1", Num(85), Arr(<<GoodRes>>)),
              Fb("f2", "b2", "c2", Num(85), Arr(<<GoodRes>>))>>))
OneBook == Arr(<<BookObj("b1")>>)
OneChapter == Arr(<<ChapterObj("c1", "b1")>>)

BookElems == {BookObj("b1"), BookObj("b2"), NullBook}
ChapterElems ==
  {ChapterObj("c1", "b1"), ChapterObj("c2", "b1"), ChapterObj("c2", "b2"),
   ChapterObj("c1", "b9"), NullChapter}
QaElems == {QaObj("qa1", "c1"), QaObj("qa2", "c2"), QaObj("qa3", "c9"), NullQa}
HistElems == {HistObj("h1", "book_created"), HistObj("h2", "not_real"), NullHist, PrimHist}

\* Books, chapters and Q&A in every combination, under fixed AI artifacts.
RelationalBlobs ==
  {Blob(Arr(bs), Arr(cs), Arr(qs), NotArr, BaseAi) :
     bs \in SeqsUpTo(BookElems, MaxBooks),
     cs \in SeqsUpTo(ChapterElems, MaxChapters),
     qs \in SeqsUpTo(QaElems, MaxQas)}

GQElems ==
  {GQ(id, "c1", q) : id \in {"g1", "g2"},
                     q \in {ShortText, Str(QuestionMaxLen, 1, 0), Str(2, 0, 0)}}
    \cup {GQ("g1", "c9", ShortText), GQ(NumTok, "c1", ShortText), BareGQ("g2", "c1"), NullGQ}
DraftElems ==
  {Draft("c1", "g1", ShortText), Draft("c1", "g2", ShortText),
   Draft("c1", "g1", Str(AnswerMaxLen, 1, 0)), Draft("c1", "g9", ShortText),
   Draft("c1", "g1", EmptyStr), NullDraft}

\* Generated questions and draft answers of one chapter.
QuestionBlobs ==
  {Blob(OneBook, OneChapter, Arr(<<>>), NotArr,
        AiObj("b1", "c1", NoConfig, Arr(gs), Arr(ds), NotArr)) :
     gs \in SeqsUpTo(GQElems, MaxQuestions),
     ds \in SeqsUpTo(DraftElems, MaxDrafts)}

ResElems == {Res("g1", Num(120)), Res("g1", NumH(171)), Res(NumTok, Num(50)), NullRes}
FbElems ==
  {Fb("f1", b, c, Num(85), Arr(<<GoodRes>>)) : b \in {"b1", "b9"}, c \in {"c1", "c9"}}
    \cup {Fb("f2", "b1", "c1", s, Arr(<<GoodRes>>)) : s \in {Num(150), NaNVal, NumH(-3)}}
    \cup {Fb("f3", "b1", "c1", Num(50), Arr(rs)) : rs \in SeqsUpTo(ResElems, MaxResults)}
    \cup {Fb("f4", "b1", "c1", Num(50), NotArr), Fb(NumTok, "b1", "c1", Num(50), Arr(<<GoodRes>>)),
          NullFb}

\* Feedback history.
FeedbackBlobs ==
  {Blob(OneBook, OneChapter, Arr(<<>>), NotArr,
        AiObj("b1", "c1", NoConfig, NotArr, NotArr, Arr(fs))) :
     fs \in SeqsUpTo(FbElems, MaxFeedback)}

\* The selected pointers.
PointerBlobs ==
  {Blob(Arr(bs), Arr(cs), Arr(<<>>), NotArr,
        AiObj(sb, sc, NoConfig, NotArr, NotArr, NotArr)) :
     bs \in {<<BookObj("b1")>>, <<BookObj("b1"), BookObj("b2")>>},
     cs \in {<<>>, <<ChapterObj("c1", "b1")>>,
             <<ChapterObj("c1", "b1"), ChapterObj("c2", "b1")>>,
             <<ChapterObj("c2", "b2"), ChapterObj("c1", "b1")>>},
     sb \in {Undef, "b1", "b2", "b9", NumTok},
     sc \in {Undef, "c1", "c2", "c9", NumTok}}

\* The last configuration and the history.
ConfigBlobs ==
  {Blob(OneBook, OneChapter, Arr(<<>>), Arr(hs),
        AiObj(Undef, Undef, cfg, NotArr, NotArr, NotArr)) :
     hs \in SeqsUpTo(HistElems, MaxHistory),
     cfg \in {NoConfig} \cup
             {Config(n, d, st) : n \in {Num(99), Num(0), NumH(5), NaNVal, NullVal},
                                 d \in {"hard", "nope"}, st \in {"mixed", Undef}}}

\* Values that are no blob at all, and a blob with no array in it.
DegenerateBlobs ==
  {NonObjectBlob("null"), NonObjectBlob("prim"),
   Blob(NotArr, NotArr, NotArr, NotArr, NoAi),
   Blob(OneBook, OneChapter, NotArr, NotArr, NoAi)}

StoredValues ==
  {[k |-> "json", value |-> b] :
     b \in RelationalBlobs \cup QuestionBlobs \cup FeedbackBlobs \cup PointerBlobs
           \cup ConfigBlobs \cup DegenerateBlobs}
    \cup {[k |-> kind, value |-> NonObjectBlob("null")] : kind \in {"absent", "garbage"}}

----------------------------------------------------------------------------
(* Loading a user's data: App.tsx, the useState initializer of `data`.     *)

\* No user is signed in: the store is the empty one and nothing is pending.
NoRequest ==
  [kind |-> "none", bookId |-> Undef, chapterId |-> Undef,
   config |-> defaultAICoachConfig, answerRows |-> <<>>, pending |-> 0,
   settled |-> "none"]
NoDelete == [op |-> "none", bookIds |-> {}, chapterIds |-> {}, consistent |-> FALSE]
\* The people who use the browser.
Users == {"u1", "u2"}

\* What local storage holds under userDataKey(userId).
Absent == [k |-> "absent", value |-> createEmptyUserData]
\* saveJson(userDataKey(userId), data)
Saved(d) == [k |-> "saved", value |-> d]

\* Nobody is registered and nobody is logged in.
SessionIdle ==
  /\ sessionUserId = "null"
  /\ users = {}
  /\ blobs = [u \in Users |-> Absent]
  /\ createdBy = [u \in Users |-> {}]

StoreIdle ==
  /\ SessionIdle
  /\ data = createEmptyUserData
  /\ aiBusy = "null"
  /\ aiErr = "null"
  /\ inflight = NoRequest
  /\ last = NoDelete

NoResult == [threw |-> FALSE, data |-> createEmptyUserData]

InitNorm ==
  /\ stored \in StoredValues
  /\ raw = NonObjectBlob("null")
  /\ norm1 = NoResult
  /\ norm2 = NoResult
  /\ npc = "stored"
  /\ clock = 1
  /\ StoreIdle
  /\ GatewayIdle

LoadJson ==
  /\ npc = "stored"
  /\ raw' = loadJson(stored, ToRaw(createEmptyUserData))
  /\ npc' = "loaded"
  /\ UNCHANGED <<stored, norm1, norm2, clock>>
  /\ UNCHANGED <<storeVars, gatewayVars, parseVars, sessionVars>>

Normalize ==
  /\ npc = "loaded"
  /\ norm1' = normalizeUserData(raw, clock)
  /\ npc' = "normalized"
  /\ clock' = clock + 1
  /\ UNCHANGED <<stored, raw, norm2>>
  /\ UNCHANGED <<storeVars, gatewayVars, parseVars, sessionVars>>

\* The normalized value is normalized again (it is what the next load of
\* the saved blob does).
NormalizeAgain ==
  /\ npc = "normalized"
  /\ ~norm1.threw
  /\ norm2' = normalizeUserData(ToRaw(norm1.data), clock)
  /\ npc' = "renormalized"
  /\ clock' = clock + 1
  /\ UNCHANGED <<stored, raw, norm1>>
  /\ UNCHANGED <<storeVars, gatewayVars, parseVars, sessionVars>>

NextNorm == LoadJson \/ Normalize \/ NormalizeAgain

SpecNorm == InitNorm /\ [][NextNorm]_vars

----------------------------------------------------------------------------
(* The client store: App.tsx and hooks/use-ai-coach.ts.  A user is signed  *)
(* in; `data` starts as the normalized value of what was stored for them   *)
(* and is replaced by one setData updater per user action.                 *)

\* Ids of a sequence of entities.
IdsOf(s) == {e.id : e \in Range(s)}

\* The ids of the books and chapters of a store.
EntityIds(d) == IdsOf(d.books) \cup IdsOf(d.chapters)

\* Every child names a parent that is there.
ReferentialIntegrity(d) ==
  /\ \A ch \in Range(d.chapters) : ch.bookId \in IdsOf(d.books)
  /\ \A qa \in Range(d.qas) : qa.chapterId \in IdsOf(d.chapters)
  /\ \A q \in Range(d.aiCoach.generatedQuestions) : q.chapterId \in IdsOf(d.chapters)
  /\ \A a \in Range(d.aiCoach.draftAnswers) :
       /\ a.chapterId \in IdsOf(d.chapters)
       /\ a.questionId \in IdsOf(d.aiCoach.generatedQuestions)
  /\ \A e \in Range(d.aiCoach.feedbackHistory) :
       /\ e.bookId \in IdsOf(d.books)
       /\ e.chapterId \in IdsOf(d.chapters)

\* The integrity rules of the store: every reference names an entity that is
\* there, the selected pointers included.
Consistent(d) ==
  /\ ReferentialIntegrity(d)
  /\ d.aiCoach.selectedBookId \in IdsOf(d.books) \cup {Undef}
  /\ d.aiCoach.selectedChapterId \in IdsOf(d.chapters) \cup {Undef}

\* uid(prefix): unique per call; the clock and the call's index stand for
\* the random and time parts.
uid(prefix, t, i) == prefix \o "_" \o ToString(t) \o "_" \o ToString(i)

StoreBook(id, ts) == [k |-> "obj", id |-> id, updatedAt |-> ts]
StoreChapter(id, bookId, number, ts) ==
  [k |-> "obj", id |-> id, bookId |-> bookId, number |-> number, createdAt |-> ts]
StoreQa(id, chapterId) == [k |-> "obj", id |-> id, chapterId |-> chapterId]
HistoryEvent(id, type, bookId, chapterId, ts) ==
  [k |-> "obj", id |-> id, type |-> type, bookId |-> bookId, chapterId |-> chapterId,
   ts |-> ts]

\* What local storage may hold for the user when the session starts.
SeedBooks == Arr(<<StoreBook("b1", nowISO(0)), StoreBook("b2", nowISO(0))>>)
SeedAi(selB, selC, gqs, drafts, fbs) ==
  AiObj(selB, selC, Config(Num(2), "easy", "mixed"), Arr(gqs), Arr(drafts), Arr(fbs))
StoreSeeds ==
  { \* nothing stored
    ToRaw(createEmptyUserData),
    \* two books with a chapter each, and AI artifacts of both chapters
    Blob(SeedBooks,
         Arr(<<StoreChapter("c1", "b1", Undef, nowISO(0)),
               StoreChapter("c2", "b2", Undef, nowISO(0))>>),
         Arr(<<StoreQa("qa1", "c1")>>), Arr(<<>>),
         SeedAi("b1", "c1",
                <<GQ("g1", "c1", ShortText), GQ("g2", "c2", ShortText)>>,
                <<Draft("c1", "g1", ShortText)>>,
                <<Fb("f1", "b1", "c1", Num(85), Arr(<<GoodRes>>)),
                  Fb("f2", "b2", "c2", Num(85), Arr(<<GoodRes>>))>>)),
    \* a feedback entry whose chapter is a chapter of another book
    Blob(SeedBooks,
         Arr(<<StoreChapter("c2", "b2", Undef, nowISO(0))>>),
         Arr(<<>>), Arr(<<>>),
         SeedAi("b2", "c2", <<>>, <<>>,
                <<Fb("f1", "b1", "c2", Num(85), Arr(<<GoodRes>>))>>)) }

\* The position of a timestamp string on the clock.
TimeOf(ts) == CHOOSE t \in 0..(MaxClock + 1) : nowISO(t) = ts

\* compareChapterEntries(a, b) < 0
NoNumber == 1000000000
compareChapterEntries(a, b) ==
  LET an == IF a.number = Undef THEN NoNumber ELSE a.number
      bn == IF b.number = Undef THEN NoNumber ELSE b.number
  IN  IF an # bn THEN an < bn ELSE TimeOf(a.createdAt) < TimeOf(b.createdAt)

\* chapters.sort(compareChapterEntries)
RECURSIVE SortChapters(_)
SortChapters(chs) ==
  IF chs = <<>> THEN <<>>
  ELSE LET i == CHOOSE i \in DOMAIN chs :
                  \A j \in DOMAIN chs : j = i \/ ~compareChapterEntries(chs[j], chs[i])
       IN  <<chs[i]>> \o SortChapters(SubSeq(chs, 1, i - 1) \o SubSeq(chs, i + 1, Len(chs)))

\* array[0]?.id
FirstId(s) == IF s = <<>> THEN Undef ELSE Head(s).id

\* use-library-data: chaptersByBook.get(bookId) ?? []
chaptersByBook(d, bookId) ==
  SortChapters(FilterSeq(d.chapters, LAMBDA ch: ch.bookId = bookId))

\* use-ai-coach: the memoized views of the store.  Undef stands for null.
aiSelectedBook(d) ==
  IF Truthy(d.aiCoach.selectedBookId) /\ d.aiCoach.selectedBookId \in IdsOf(d.books)
  THEN d.aiCoach.selectedBookId ELSE Undef
aiChapterOptions(d) ==
  IF aiSelectedBook(d) = Undef THEN <<>> ELSE chaptersByBook(d, aiSelectedBook(d))
aiSelectedChapter(d) ==
  LET options == aiChapterOptions(d)
      selectedId == d.aiCoach.selectedChapterId
  IN  IF aiSelectedBook(d) = Undef THEN Undef
      ELSE IF Truthy(selectedId) /\ selectedId \in IdsOf(options) THEN selectedId
      ELSE FirstId(options)
aiQuestionsForSelectedChapter(d) ==
  IF aiSelectedChapter(d) = Undef THEN <<>>
  ELSE FilterSeq(d.aiCoach.generatedQuestions,
                 LAMBDA q: q.chapterId = aiSelectedChapter(d))
\* aiAnswerMap.get(questionId) ?? "": the last draft of the chapter for the question
aiAnswerOf(d, questionId) ==
  LET own == FilterSeq(d.aiCoach.draftAnswers, LAMBDA a:
               a.chapterId = aiSelectedChapter(d) /\ a.questionId = questionId)
  IN  IF own = <<>> THEN EmptyStr ELSE own[Len(own)].answer

\* App.tsx pushHistory: the event goes first, the list is cut to HistoryCap.
HistoryCap == 2000
pushHistory(d, type, bookId, chapterId, t) ==
  [d EXCEPT !.history =
     SliceSeq(<<HistoryEvent(uid("h", t, 0), type, bookId, chapterId, nowISO(t))>> \o @,
              HistoryCap)]

\* books.map((b) => (b.id === bookId ? { ...b, updatedAt: ts } : b))
touchBook(books, bookId, ts) ==
  MapSeq(books, LAMBDA b: IF b.id = bookId THEN [b EXCEPT !.updatedAt = ts] ELSE b)

\* The updater of the book card's delete confirmation.
deleteBookUpdate(d, bookId) ==
  LET chaptersToDelete == {c.id : c \in {x \in Range(d.chapters) : x.bookId = bookId}}
      selectedOrEmpty == IF d.aiCoach.selectedChapterId = Undef THEN ""
                         ELSE d.aiCoach.selectedChapterId
  IN  [d EXCEPT
         !.books = FilterSeq(@, LAMBDA x: x.id # bookId),
         !.chapters = FilterSeq(@, LAMBDA c: c.bookId # bookId),
         !.qas = FilterSeq(@, LAMBDA qa: qa.chapterId \notin chaptersToDelete),
         !.aiCoach.selectedBookId = IF @ = bookId THEN Undef ELSE @,
         !.aiCoach.selectedChapterId = IF selectedOrEmpty \in chaptersToDelete THEN Undef ELSE @,
         !.aiCoach.generatedQuestions = FilterSeq(@, LAMBDA q: q.chapterId \notin chaptersToDelete),
         !.aiCoach.draftAnswers = FilterSeq(@, LAMBDA a: a.chapterId \notin chaptersToDelete),
         !.aiCoach.feedbackHistory = FilterSeq(@, LAMBDA e: e.chapterId \notin chaptersToDelete)]

\* The updater of the chapter's delete confirmation.
deleteChapterUpdate(d, chapterId) ==
  LET nextChapters == FilterSeq(d.chapters, LAMBDA x: x.id # chapterId)
      nextSelectedChapterId ==
        IF d.aiCoach.selectedChapterId = chapterId
        THEN IF Truthy(d.aiCoach.selectedBookId)
             THEN FirstId(SortChapters(FilterSeq(nextChapters, LAMBDA entry:
                                         entry.bookId = d.aiCoach.selectedBookId)))
             ELSE Undef
        ELSE d.aiCoach.selectedChapterId
  IN  [d EXCEPT
         !.chapters = nextChapters,
         !.qas = FilterSeq(@, LAMBDA qa: qa.chapterId # chapterId),
         !.aiCoach.selectedChapterId = nextSelectedChapterId,
         !.aiCoach.generatedQuestions = FilterSeq(@, LAMBDA q: q.chapterId # chapterId),
         !.aiCoach.draftAnswers = FilterSeq(@, LAMBDA a: a.chapterId # chapterId),
         !.aiCoach.feedbackHistory = FilterSeq(@, LAMBDA e: e.chapterId # chapterId)]

\* use-ai-coach selectAIBook: the updater.
selectAIBookUpdate(d, bookId) ==
  LET nextBookId == IF bookId = "" THEN Undef ELSE bookId
      chapterOptions ==
        IF nextBookId = Undef THEN <<>>
        ELSE SortChapters(FilterSeq(d.chapters, LAMBDA ch: ch.bookId = nextBookId))
      nextChapterId ==
        IF d.aiCoach.selectedChapterId \in IdsOf(chapterOptions)
        THEN d.aiCoach.selectedChapterId
        ELSE FirstId(chapterOptions)
  IN  [d EXCEPT !.aiCoach.selectedBookId = nextBookId,
                !.aiCoach.selectedChapterId = nextChapterId]

\* The updater without its test for a blank answer: whatever is typed is
\* stored.
updateDraftAnswersKeepBlank(drafts, chapterId, questionId, nextAnswer, ts) ==
  LET hits == {i \in DOMAIN drafts :
                 drafts[i].chapterId = chapterId /\ drafts[i].questionId = questionId}
      index == IF hits = {} THEN 0 ELSE CHOOSE i \in hits : \A j \in hits : i <= j
  IN  IF index > 0
      THEN [drafts EXCEPT ![index] = [@ EXCEPT !.answer = nextAnswer, !.updatedAt = ts]]
      ELSE <<[k |-> "obj", chapterId |-> chapterId, questionId |-> questionId,
              answer |-> nextAnswer, updatedAt |-> ts]>> \o drafts

\* use-ai-coach updateAIDraftAnswer: the updater, for the chapter the view
\* showed and the clamped answer.
updateDraftAnswers(drafts, chapterId, questionId, nextAnswer, ts) ==
  LET hits == {i \in DOMAIN drafts :
                 drafts[i].chapterId = chapterId /\ drafts[i].questionId = questionId}
      index == IF hits = {} THEN 0 ELSE CHOOSE i \in hits : \A j \in hits : i <= j
      blank == Length(TrimText(nextAnswer)) = 0
  IN  IF index > 0
      THEN IF blank
           THEN SubSeq(drafts, 1, index - 1) \o SubSeq(drafts, index + 1, Len(drafts))
           ELSE [drafts EXCEPT ![index] = [@ EXCEPT !.answer = nextAnswer, !.updatedAt = ts]]
      ELSE IF ~blank
           THEN <<[k |-> "obj", chapterId |-> chapterId, questionId |-> questionId,
                   answer |-> nextAnswer, updatedAt |-> ts]>> \o drafts
           ELSE drafts

\* The session starts: App.tsx, the useState initializer of `data`.
InitStore ==
  /\ \E seed \in StoreSeeds : data = normalizeUserData(seed, 1).data
  /\ sessionUserId = "u1"
  /\ users = {"u1"}
  /\ blobs = [u \in Users |-> IF u = "u1" THEN Saved(data) ELSE Absent]
  /\ createdBy = [u \in Users |-> IF u = "u1" THEN EntityIds(data) ELSE {}]
  /\ aiBusy = "null"
  /\ aiErr = "null"
  /\ inflight = NoRequest
  /\ last = NoDelete
  /\ clock = 1
  /\ stored = [k |-> "absent", value |-> NonObjectBlob("null")]
  /\ raw = NonObjectBlob("null")
  /\ norm1 = NoResult
  /\ norm2 = NoResult
  /\ npc = "session"
  /\ GatewayIdle

\* What every store action leaves alone.
\* What a change of the store leaves alone, and the save effect that
\* follows it: saveJson(userDataKey(sessionUserId), data) when someone is
\* logged in.
StoreFrame ==
  /\ UNCHANGED <<stored, raw, norm1, norm2, npc, gatewayVars, parseVars>>
  /\ UNCHANGED <<sessionUserId, users>>
  /\ blobs' = IF sessionUserId = "null" THEN blobs
              ELSE [blobs EXCEPT ![sessionUserId] = Saved(data')]
  /\ createdBy' = IF sessionUserId = "null" THEN createdBy
                  ELSE [createdBy EXCEPT ![sessionUserId] =
                          @ \cup (EntityIds(data') \ EntityIds(data))]

\* BookModal onSave without bookEditId: a new book.
AddBook ==
  /\ clock < MaxClock
  /\ LET id == uid("b", clock, 1)
     IN  data' = pushHistory([data EXCEPT !.books = <<StoreBook(id, nowISO(clock))>> \o @],
                             "book_created", id, Undef, clock)
  /\ clock' = clock + 1
  /\ UNCHANGED <<aiBusy, aiErr, inflight>>
  /\ last' = NoDelete
  /\ StoreFrame

\* BookView onCreateChapter, the view showing book bookId.
CreateChapter(bookId) ==
  /\ clock < MaxClock
  /\ bookId \in IdsOf(data.books)
  /\ LET id == uid("ch", clock, 1)
         newCh == StoreChapter(id, bookId, Undef, nowISO(clock))
     IN  data' = pushHistory([data EXCEPT !.chapters = <<newCh>> \o @],
                             "chapter_created", bookId, id, clock)
  /\ clock' = clock + 1
  /\ UNCHANGED <<aiBusy, aiErr, inflight>>
  /\ last' = NoDelete
  /\ StoreFrame

\* ChapterView onCreateQA, the view showing chapter ch.
CreateQA(ch) ==
  /\ clock < MaxClock
  /\ ch \in Range(data.chapters)
  /\ LET id == uid("qa", clock, 1)
     IN  data' = pushHistory([data EXCEPT !.qas = <<StoreQa(id, ch.id)>> \o @,
                                          !.books = touchBook(@, ch.bookId, nowISO(clock))],
                             "qa_created", ch.bookId, ch.id, clock)
  /\ clock' = clock + 1
  /\ UNCHANGED <<aiBusy, aiErr, inflight>>
  /\ last' = NoDelete
  /\ StoreFrame

\* ChapterView onDeleteQA, confirmed.
DeleteQA(ch, qaId) ==
  /\ clock < MaxClock
  /\ ch \in Range(data.chapters)
  /\ \E qa \in Range(data.qas) : qa.id = qaId /\ qa.chapterId = ch.id
  /\ data' = pushHistory([data EXCEPT !.qas = FilterSeq(@, LAMBDA qa: qa.id # qaId),
                                       !.books = touchBook(@, ch.bookId, nowISO(clock))],
                         "qa_deleted", ch.bookId, ch.id, clock)
  /\ clock' = clock + 1
  /\ UNCHANGED <<aiBusy, aiErr, inflight>>
  /\ last' = NoDelete
  /\ StoreFrame

\* BookCard onDelete, confirmed: the cascade and the history event.
DeleteBook(bookId) ==
  /\ clock < MaxClock
  /\ bookId \in IdsOf(data.books)
  /\ data' = pushHistory(deleteBookUpdate(data, bookId), "book_deleted", bookId, Undef, clock)
  /\ last' = [op |-> "deleteBook", bookIds |-> {bookId},
              chapterIds |-> {c.id : c \in {x \in Range(data.chapters) : x.bookId = bookId}},
              consistent |-> Consistent(data)]
  /\ clock' = clock + 1
  /\ UNCHANGED <<aiBusy, aiErr, inflight>>
  /\ StoreFrame

\* BookView onDeleteChapter, confirmed, the view showing the chapter's book.
DeleteChapter(ch) ==
  /\ clock < MaxClock
  /\ ch \in Range(data.chapters)
  /\ data' = pushHistory(deleteChapterUpdate(data, ch.id), "chapter_deleted", ch.bookId,
                         ch.id, clock)
  /\ last' = [op |-> "deleteChapter", bookIds |-> {}, chapterIds |-> {ch.id},
              consistent |-> Consistent(data)]
  /\ clock' = clock + 1
  /\ UNCHANGED <<aiBusy, aiErr, inflight>>
  /\ StoreFrame

\* selectAIBook(bookId): the book select of the AI coach view ("" is its
\* empty option).
SelectAIBook(bookId) ==
  /\ clock < MaxClock
  /\ bookId \in IdsOf(data.books) \cup {""}
  /\ aiErr' = "null"
  /\ data' = selectAIBookUpdate(data, bookId)
  /\ clock' = clock + 1
  /\ UNCHANGED <<aiBusy, inflight>>
  /\ last' = NoDelete
  /\ StoreFrame

\* selectAIChapter(chapterId): the chapter select, offering the chapters of
\* the selected book.
SelectAIChapter(chapterId) ==
  /\ clock < MaxClock
  /\ chapterId \in IdsOf(aiChapterOptions(data)) \cup {""}
  /\ aiErr' = "null"
  /\ data' = [data EXCEPT !.aiCoach.selectedChapterId =
                IF chapterId = "" THEN Undef ELSE chapterId]
  /\ clock' = clock + 1
  /\ UNCHANGED <<aiBusy, inflight>>
  /\ last' = NoDelete
  /\ StoreFrame

\* updateAIDraftAnswer(questionId, answer): typing into the answer box of a
\* question shown for the selected chapter.
DraftInputs == {ShortText, Str(1, 0, 0), Str(0, AnswerMaxLen + 1, 0)}
UpdateAIDraftAnswer(questionId, answer) ==
  /\ clock < MaxClock
  /\ questionId \in IdsOf(aiQuestionsForSelectedChapter(data))
  /\ aiSelectedChapter(data) # Undef
  /\ data' = [data EXCEPT !.aiCoach.draftAnswers =
                updateDraftAnswers(@, aiSelectedChapter(data), questionId,
                                   clampStr(answer, AnswerMaxLen), nowISO(clock))]
  /\ clock' = clock + 1
  /\ UNCHANGED <<aiBusy, aiErr, inflight>>
  /\ last' = NoDelete
  /\ StoreFrame

\* A row of an AI response as the client reads it.
QuestionRow(id, question, rubric) == [id |-> id, question |-> question, rubric |-> rubric]
ResultRow(questionId, score) ==
  [questionId |-> questionId, score |-> score, feedback |-> ShortText,
   idealAnswer |-> UndefText]
ResultRows(answerRows) ==
  {ResultRow(row.questionId, score) : row \in Range(answerRows),
                                      score \in {Num(85), Num(150), NaNVal}}
    \cup {ResultRow(Undef, Num(85)), ResultRow("zz", Num(85))}
\* An await that ends in an exception (network error, an HTTP error).
Rejected == [ok |-> FALSE, rows |-> <<>>]
Resolved(rows) == [ok |-> TRUE, rows |-> rows]

QuestionRows ==
  {QuestionRow(id, ShortText, ShortText) : id \in {NoId, RawId(0, "q1", 0), RawId(1, "q1", 0)}}
    \cup {QuestionRow(RawId(0, "q2", 0), q, NumText) : q \in {Str(2, 0, 0), NumText}}

\* generateAIQuestions, the loop over response.questions: `seen` is seenIds,
\* `i` counts the rows for uid("gq").
\* The loop without seenIds: every id the response carries is taken as it is.
RECURSIVE clientQuestionsAnyId(_, _, _, _, _, _)
clientQuestionsAnyId(rows, i, seen, chapterId, config, t) ==
  IF rows = <<>> THEN <<>>
  ELSE LET item == Head(rows)
           text == IF IsStringText(item.question)
                   THEN clampStr(TrimText(item.question), QuestionMaxLen)
                   ELSE EmptyStr
           candidateId == IF item.id.k = "str" THEN TrimId(item.id) ELSE ""
           id == IF candidateId # "" THEN candidateId ELSE uid("gq", t, 2 * i)
       IN  IF FalsyText(text)
           THEN clientQuestionsAnyId(Tail(rows), i + 1, seen, chapterId, config, t)
           ELSE <<[k |-> "obj", id |-> id, chapterId |-> chapterId, question |-> text,
                   rubric |-> IF IsStringText(item.rubric)
                              THEN clampStr(item.rubric, RubricMaxLen) ELSE EmptyStr,
                   createdAt |-> nowISO(t),
                   difficulty |-> config.difficulty,
                   style |-> config.style]>>
                \o clientQuestionsAnyId(Tail(rows), i + 1, seen, chapterId, config, t)

RECURSIVE clientQuestions(_, _, _, _, _, _)
clientQuestions(rows, i, seen, chapterId, config, t) ==
  IF rows = <<>> THEN <<>>
  ELSE LET item == Head(rows)
           text == IF IsStringText(item.question)
                   THEN clampStr(TrimText(item.question), QuestionMaxLen)
                   ELSE EmptyStr
           candidateId == IF item.id.k = "str" THEN TrimId(item.id) ELSE ""
           id1 == IF candidateId # "" THEN candidateId ELSE uid("gq", t, 2 * i)
           id == IF id1 \in seen THEN uid("gq", t, 2 * i + 1) ELSE id1
       IN  IF FalsyText(text)
           THEN clientQuestions(Tail(rows), i + 1, seen, chapterId, config, t)
           ELSE <<[k |-> "obj", id |-> id, chapterId |-> chapterId, question |-> text,
                   rubric |-> IF IsStringText(item.rubric)
                              THEN clampStr(item.rubric, RubricMaxLen) ELSE EmptyStr,
                   createdAt |-> nowISO(t),
                   difficulty |-> config.difficulty,
                   style |-> config.style]>>
                \o clientQuestions(Tail(rows), i + 1, seen \cup {id}, chapterId, config, t)

\* generateAIQuestions behind a button that is never disabled.
GenerateStartWhileBusy ==
  /\ clock < MaxClock
  /\ sessionUserId # "null"
  /\ IF aiSelectedBook(data) = Undef \/ aiSelectedChapter(data) = Undef
     THEN /\ aiErr' = "Select a book and chapter first."
          /\ UNCHANGED <<aiBusy, inflight>>
     ELSE /\ aiBusy' = "generate"
          /\ aiErr' = "null"
          /\ inflight' = [kind |-> "generate", bookId |-> aiSelectedBook(data),
                          chapterId |-> aiSelectedChapter(data),
                          config |-> data.aiCoach.lastConfig, answerRows |-> <<>>,
                          pending |-> inflight.pending + 1, settled |-> "none"]
  /\ clock' = clock + 1
  /\ UNCHANGED data
  /\ last' = NoDelete
  /\ StoreFrame

\* generateAIQuestions up to the await.  The view disables the button while
\* a request is pending.
GenerateStart ==
  /\ clock < MaxClock
  /\ sessionUserId # "null"
  /\ aiBusy = "null"
  /\ IF aiSelectedBook(data) = Undef \/ aiSelectedChapter(data) = Undef
     THEN /\ aiErr' = "Select a book and chapter first."
          /\ UNCHANGED <<aiBusy, inflight>>
     ELSE /\ aiBusy' = "generate"
          /\ aiErr' = "null"
          /\ inflight' = [kind |-> "generate", bookId |-> aiSelectedBook(data),
                          chapterId |-> aiSelectedChapter(data),
                          config |-> data.aiCoach.lastConfig, answerRows |-> <<>>,
                          pending |-> inflight.pending + 1, settled |-> "none"]
  /\ clock' = clock + 1
  /\ UNCHANGED data
  /\ last' = NoDelete
  /\ StoreFrame

\* generateAIQuestions without its finally: a rejected request leaves the
\* busy state as it is.
GenerateSettleNoFinally(response) ==
  /\ aiBusy = "generate"
  /\ LET normalized == clientQuestions(response.rows, 1, {}, inflight.chapterId,
                                       inflight.config, clock)
     IN  IF ~response.ok
         THEN aiErr' = "Failed to generate AI questions." /\ data' = data
         ELSE IF normalized = <<>>
         THEN aiErr' = "The AI service returned no usable questions." /\ data' = data
         ELSE /\ aiErr' = aiErr
              /\ data' = pushHistory(
                   [data EXCEPT
                      !.aiCoach.selectedBookId = inflight.bookId,
                      !.aiCoach.selectedChapterId = inflight.chapterId,
                      !.aiCoach.generatedQuestions =
                         normalized \o FilterSeq(@, LAMBDA q: q.chapterId # inflight.chapterId),
                      !.aiCoach.draftAnswers =
                         FilterSeq(@, LAMBDA a: a.chapterId # inflight.chapterId)],
                   "ai_questions_generated", inflight.bookId, inflight.chapterId, clock)
  /\ aiBusy' = IF ~response.ok THEN aiBusy ELSE "null"
  /\ inflight' =
       [NoRequest EXCEPT
          !.pending = inflight.pending - 1,
          !.settled =
             IF ~response.ok
                  \/ clientQuestions(response.rows, 1, {}, inflight.chapterId,
                                     inflight.config, clock) = <<>>
             THEN "failed" ELSE "ok"]
  /\ clock' = clock + 1
  /\ last' = NoDelete
  /\ StoreFrame

\* generateAIQuestions from the await on: the response is merged into the
\* store as it is then.
GenerateSettle(response) ==
  /\ aiBusy = "generate"
  /\ LET normalized == clientQuestions(response.rows, 1, {}, inflight.chapterId,
                                       inflight.config, clock)
     IN  IF ~response.ok
         THEN aiErr' = "Failed to generate AI questions." /\ data' = data
         ELSE IF normalized = <<>>
         THEN aiErr' = "The AI service returned no usable questions." /\ data' = data
         ELSE /\ aiErr' = aiErr
              /\ data' = pushHistory(
                   [data EXCEPT
                      !.aiCoach.selectedBookId = inflight.bookId,
                      !.aiCoach.selectedChapterId = inflight.chapterId,
                      !.aiCoach.generatedQuestions =
                         normalized \o FilterSeq(@, LAMBDA q: q.chapterId # inflight.chapterId),
                      !.aiCoach.draftAnswers =
                         FilterSeq(@, LAMBDA a: a.chapterId # inflight.chapterId)],
                   "ai_questions_generated", inflight.bookId, inflight.chapterId, clock)
  /\ aiBusy' = "null"
  /\ inflight' =
       [NoRequest EXCEPT
          !.pending = inflight.pending - 1,
          !.settled =
             IF ~response.ok
                  \/ clientQuestions(response.rows, 1, {}, inflight.chapterId,
                                     inflight.config, clock) = <<>>
             THEN "failed" ELSE "ok"]
  /\ clock' = clock + 1
  /\ last' = NoDelete
  /\ StoreFrame

\* gradeAIAnswers: the rows sent, one per question of the chapter that has a
\* non-blank draft.
answerRowsOf(d) ==
  FilterSeq(
    MapSeq(aiQuestionsForSelectedChapter(d), LAMBDA q:
      [questionId |-> q.id, question |-> q.question,
       studentAnswer |-> TrimText(aiAnswerOf(d, q.id))]),
    LAMBDA row: Length(row.studentAnswer) > 0)

\* gradeAIAnswers up to the await.
GradeStart ==
  /\ clock < MaxClock
  /\ sessionUserId # "null"
  /\ aiBusy = "null"
  /\ IF aiSelectedBook(data) = Undef \/ aiSelectedChapter(data) = Undef
     THEN /\ aiErr' = "Select a book and chapter first."
          /\ UNCHANGED <<aiBusy, inflight>>
     ELSE IF aiQuestionsForSelectedChapter(data) = <<>>
     THEN /\ aiErr' = "Generate questions before grading answers."
          /\ UNCHANGED <<aiBusy, inflight>>
     ELSE IF answerRowsOf(data) = <<>>
     THEN /\ aiErr' = "Write at least one answer before grading."
          /\ UNCHANGED <<aiBusy, inflight>>
     ELSE /\ aiBusy' = "grade"
          /\ aiErr' = "null"
          /\ inflight' = [kind |-> "grade", bookId |-> aiSelectedBook(data),
                          chapterId |-> aiSelectedChapter(data),
                          config |-> data.aiCoach.lastConfig,
                          answerRows |-> answerRowsOf(data),
                          pending |-> inflight.pending + 1, settled |-> "none"]
  /\ clock' = clock + 1
  /\ UNCHANGED data
  /\ last' = NoDelete
  /\ StoreFrame

\* gradeAIAnswers, the loop over response.results.
clientResults(rows, answerRows) ==
  MapSeq(
    FilterSeq(rows, LAMBDA result:
      IsString(result.questionId) /\ result.questionId # ""
        /\ \E row \in Range(answerRows) : row.questionId = result.questionId),
    LAMBDA result:
      LET hits == {i \in DOMAIN answerRows : answerRows[i].questionId = result.questionId}
          row == answerRows[CHOOSE i \in hits : \A j \in hits : j <= i]
      IN  [k |-> "obj", questionId |-> result.questionId, question |-> row.question,
           studentAnswer |-> row.studentAnswer,
           score |-> Num(clampInt(result.score, ScoreMin, ScoreMax, 0)),
           feedback |-> IF IsStringText(result.feedback)
                        THEN clampStr(result.feedback, FeedbackTextMaxLen) ELSE EmptyStr,
           idealAnswer |-> IF IsStringText(result.idealAnswer)
                           THEN clampStr(result.idealAnswer, FeedbackTextMaxLen)
                           ELSE EmptyStr])

RECURSIVE SumScores(_)
SumScores(results) ==
  IF results = <<>> THEN 0 ELSE (Head(results).score.h \div 2) + SumScores(Tail(results))

\* Math.round(sum / length)
averageScoreOf(results) == (2 * SumScores(results) + Len(results)) \div (2 * Len(results))

\* gradeAIAnswers from the await on.
GradeSettle(response) ==
  /\ aiBusy = "grade"
  /\ LET normalizedResults == clientResults(response.rows, inflight.answerRows)
         feedbackEntry ==
           [k |-> "obj", id |-> uid("aif", clock, 1), bookId |-> inflight.bookId,
            chapterId |-> inflight.chapterId, createdAt |-> nowISO(clock),
            difficulty |-> inflight.config.difficulty, style |-> inflight.config.style,
            averageScore |-> Num(averageScoreOf(normalizedResults)),
            results |-> Arr(normalizedResults)]
     IN  IF ~response.ok
         THEN aiErr' = "Failed to grade answers." /\ data' = data
         ELSE IF normalizedResults = <<>>
         THEN aiErr' = "The AI service returned no usable grade results." /\ data' = data
         ELSE /\ aiErr' = aiErr
              /\ data' = pushHistory(
                   [data EXCEPT !.aiCoach.feedbackHistory =
                      SliceSeq(<<feedbackEntry>> \o @, FeedbackHistoryCap)],
                   "ai_answers_graded", inflight.bookId, inflight.chapterId, clock)
  /\ aiBusy' = "null"
  /\ inflight' =
       [NoRequest EXCEPT
          !.pending = inflight.pending - 1,
          !.settled =
             IF ~response.ok \/ clientResults(response.rows, inflight.answerRows) = <<>>
             THEN "failed" ELSE "ok"]
  /\ clock' = clock + 1
  /\ last' = NoDelete
  /\ StoreFrame

NextStore ==
  \/ AddBook
  \/ \E bookId \in IdsOf(data.books) : CreateChapter(bookId)
  \/ \E ch \in Range(data.chapters) : CreateQA(ch)
  \/ \E ch \in Range(data.chapters), qaId \in IdsOf(data.qas) : DeleteQA(ch, qaId)
  \/ \E bookId \in IdsOf(data.books) : DeleteBook(bookId)
  \/ \E ch \in Range(data.chapters) : DeleteChapter(ch)
  \/ \E bookId \in IdsOf(data.books) \cup {""} : SelectAIBook(bookId)
  \/ \E chapterId \in IdsOf(data.chapters) \cup {""} : SelectAIChapter(chapterId)
  \/ \E questionId \in IdsOf(data.aiCoach.generatedQuestions), answer \in DraftInputs :
       UpdateAIDraftAnswer(questionId, answer)
  \/ GenerateStart
  \/ \E response \in {Rejected} \cup {Resolved(rows) : rows \in SeqsUpTo(QuestionRows, MaxRows)} :
       GenerateSettle(response)
  \/ GradeStart
  \/ \E response \in {Rejected} \cup
         {Resolved(rows) :
            rows \in SeqsUpTo(ResultRows(inflight.answerRows), MaxRows)} :
       GradeSettle(response)

SpecStore == InitStore /\ [][NextStore]_vars

\* The gateway call of a pending request completes: the promise awaited
\* settles, one way or the other.
CallCompletes ==
  \/ \E response \in {Rejected} \cup {Resolved(rows) : rows \in SeqsUpTo(QuestionRows, MaxRows)} :
       GenerateSettle(response)
  \/ \E response \in {Rejected} \cup
         {Resolved(rows) :
            rows \in SeqsUpTo(ResultRows(inflight.answerRows), MaxRows)} :
       GradeSettle(response)

\* The store, every gateway call completing.
SpecStoreFair == SpecStore /\ WF_vars(CallCompletes)

----------------------------------------------------------------------------
(* The session: use-auth.ts handleAuth and logout, and the load and save   *)
(* effects of App.tsx.  The AI coach's state (aiBusy, aiErr, the pending   *)
(* request) lives in the same component and is not reset when the session  *)
(* user changes.                                                           *)

\* The load effect: normalizeUserData(loadJson(userDataKey(userId), empty)).
loadUserData(blob, now) ==
  normalizeUserData(ToRaw(loadJson(blob, createEmptyUserData)), now).data

\* handleAuth, register: the new user gets an empty blob and the session;
\* the load effect reads the blob and the save effect writes it back.
Register(u) ==
  /\ sessionUserId = "null"
  /\ u \notin users
  /\ users' = users \cup {u}
  /\ sessionUserId' = u
  /\ data' = loadUserData(Saved(createEmptyUserData), clock)
  /\ blobs' = [blobs EXCEPT ![u] = Saved(data')]
  /\ last' = NoDelete
  /\ UNCHANGED <<aiBusy, aiErr, inflight, createdBy>>
  /\ UNCHANGED <<normVars, gatewayVars, parseVars>>

\* handleAuth, login: the session is the user's; the load effect reads
\* their blob and the save effect writes it back.
Login(u) ==
  /\ sessionUserId = "null"
  /\ u \in users
  /\ sessionUserId' = u
  /\ data' = loadUserData(blobs[u], clock)
  /\ blobs' = [blobs EXCEPT ![u] = Saved(data')]
  /\ last' = NoDelete
  /\ UNCHANGED <<aiBusy, aiErr, inflight, users, createdBy>>
  /\ UNCHANGED <<normVars, gatewayVars, parseVars>>

\* logout: no session; the load effect empties the store, and the save
\* effect does nothing without a session.
Logout ==
  /\ sessionUserId # "null"
  /\ sessionUserId' = "null"
  /\ data' = createEmptyUserData
  /\ last' = NoDelete
  /\ UNCHANGED <<aiBusy, aiErr, inflight, users, blobs, createdBy>>
  /\ UNCHANGED <<normVars, gatewayVars, parseVars>>

\* What the first user may have stored when the browser is opened.
SessionSeeds ==
  { ToRaw(createEmptyUserData),
    Blob(Arr(<<StoreBook("b1", nowISO(0))>>),
         Arr(<<StoreChapter("c1", "b1", Undef, nowISO(0))>>),
         Arr(<<>>), Arr(<<>>),
         SeedAi("b1", "c1", <<>>, <<>>, <<>>)) }

\* The browser is opened: the first user is registered, and either still
\* logged in (the session is kept in local storage) or not.
InitSession ==
  /\ users = {"u1"}
  /\ sessionUserId \in {"null", "u1"}
  /\ \E seed \in SessionSeeds :
       /\ blobs = [u \in Users |-> IF u = "u1" THEN Saved(normalizeUserData(seed, 1).data)
                                   ELSE Absent]
       /\ data = IF sessionUserId = "null" THEN createEmptyUserData
                 ELSE normalizeUserData(seed, 1).data
  /\ createdBy = [u \in Users |-> EntityIds(blobs[u].value)]
  /\ aiBusy = "null"
  /\ aiErr = "null"
  /\ inflight = NoRequest
  /\ last = NoDelete
  /\ clock = 1
  /\ stored = [k |-> "absent", value |-> NonObjectBlob("null")]
  /\ raw = NonObjectBlob("null")
  /\ norm1 = NoResult
  /\ norm2 = NoResult
  /\ npc = "session"
  /\ GatewayIdle

\* The views are shown to a logged-in user only; a pending request settles
\* whoever is logged in by then.
NextSession ==
  \/ \E u \in Users : Register(u)
  \/ \E u \in Users : Login(u)
  \/ Logout
  \/ sessionUserId # "null" /\ AddBook
  \/ sessionUserId # "null" /\ \E bookId \in IdsOf(data.books) : CreateChapter(bookId)
  \/ sessionUserId # "null" /\ \E bookId \in IdsOf(data.books) \cup {""} : SelectAIBook(bookId)
  \/ sessionUserId # "null"
       /\ \E chapterId \in IdsOf(data.chapters) \cup {""} : SelectAIChapter(chapterId)
  \/ GenerateStart
  \/ \E response \in {Rejected} \cup {Resolved(rows) : rows \in SeqsUpTo(QuestionRows, MaxRows)} :
       GenerateSettle(response)

SpecSession == InitSession /\ [][NextSession]_vars

----------------------------------------------------------------------------
(* The feedback history from the load on: App.tsx data initializer and     *)
(* gradeAIAnswers.                                                         *)

\* A stored feedback history of n entries, the newest first: what n
\* gradings of the chapter leave.
LongFeedback(n) ==
  [i \in 1..n |-> Fb("f" \o ToString(i), "b1", "c1", Num(85), Arr(<<GoodRes>>))]

\* What local storage may hold: a book with a chapter, a generated question
\* and its draft answer, and a feedback history.
FeedbackSeeds ==
  {Blob(SeedBooks,
        Arr(<<StoreChapter("c1", "b1", Undef, nowISO(0))>>),
        Arr(<<>>), Arr(<<>>),
        SeedAi("b1", "c1", <<GQ("g1", "c1", ShortText)>>,
               <<Draft("c1", "g1", ShortText)>>, fbs)) :
     fbs \in SeqsUpTo(FbElems, MaxFeedback)
              \cup {LongFeedback(FeedbackHistoryCap + n) : n \in -1..MaxOverCap}}

InitFeedback ==
  /\ raw \in FeedbackSeeds
  /\ data = normalizeUserData(raw, 1).data
  /\ sessionUserId = "u1"
  /\ users = {"u1"}
  /\ blobs = [u \in Users |-> IF u = "u1" THEN Saved(data) ELSE Absent]
  /\ createdBy = [u \in Users |-> IF u = "u1" THEN EntityIds(data) ELSE {}]
  /\ aiBusy = "null"
  /\ aiErr = "null"
  /\ inflight = NoRequest
  /\ last = NoDelete
  /\ clock = 1
  /\ stored = [k |-> "json", value |-> raw]
  /\ norm1 = NoResult
  /\ norm2 = NoResult
  /\ npc = "session"
  /\ GatewayIdle

NextFeedback ==
  \/ GradeStart
  \/ \E response \in {Rejected} \cup
         {Resolved(rows) :
            rows \in SeqsUpTo(ResultRows(inflight.answerRows), MaxRows)} :
       GradeSettle(response)

SpecFeedback == InitFeedback /\ [][NextFeedback]_vars

----------------------------------------------------------------------------
(* The AI configuration from the load on: App.tsx data initializer and     *)
(* updateAIConfig.                                                         *)

\* A patch of the configuration form: the fields it has, and their values.
Patch(hasCount, count, difficulty, style) ==
  [hasCount |-> hasCount, count |-> count, difficulty |-> difficulty, style |-> style]
\* The count field sends Number(e.target.value); the selects send a value.
ConfigPatches ==
  {Patch(TRUE, n, Undef, Undef) : n \in {Num(99), Num(0), NumH(5), Num(7), NaNVal}}
    \cup {Patch(FALSE, NaNVal, d, Undef) : d \in {"hard", "easy", "nope", ""}}
    \cup {Patch(FALSE, NaNVal, Undef, st) : st \in {"mixed", "critical_thinking", "nope", ""}}

\* updateAIConfig(patch), the updater.
updateLastConfig(prev, patch) ==
  [count |-> IF patch.hasCount
             THEN clampInt(patch.count, ConfigCountMin, ConfigCountMax, prev.count)
             ELSE prev.count,
   difficulty |-> IF Truthy(patch.difficulty) /\ isAIDifficulty(patch.difficulty)
                  THEN patch.difficulty ELSE prev.difficulty,
   style |-> IF Truthy(patch.style) /\ isAIQuestionStyle(patch.style)
             THEN patch.style ELSE prev.style]

\* updateAIConfig(patch)
UpdateAIConfig(patch) ==
  /\ data' = [data EXCEPT !.aiCoach.lastConfig = updateLastConfig(@, patch)]
  /\ UNCHANGED <<aiBusy, aiErr, inflight, clock>>
  /\ last' = NoDelete
  /\ StoreFrame

\* What local storage may hold: a book with a chapter and a configuration.
ConfigSeeds ==
  {Blob(SeedBooks,
        Arr(<<StoreChapter("c1", "b1", Undef, nowISO(0))>>),
        Arr(<<>>), Arr(<<>>),
        AiObj("b1", "c1", cfg, Arr(<<>>), Arr(<<>>), Arr(<<>>))) :
     cfg \in {NoConfig} \cup
             {Config(n, d, st) : n \in {Num(99), Num(0), NumH(5), Num(7), NaNVal, NullVal},
                                 d \in {"hard", "nope", Undef},
                                 st \in {"mixed", "nope", Undef}}}

InitConfig ==
  /\ raw \in ConfigSeeds
  /\ data = normalizeUserData(raw, 1).data
  /\ sessionUserId = "u1"
  /\ users = {"u1"}
  /\ blobs = [u \in Users |-> IF u = "u1" THEN Saved(data) ELSE Absent]
  /\ createdBy = [u \in Users |-> IF u = "u1" THEN EntityIds(data) ELSE {}]
  /\ aiBusy = "null"
  /\ aiErr = "null"
  /\ inflight = NoRequest
  /\ last = NoDelete
  /\ clock = 1
  /\ stored = [k |-> "json", value |-> raw]
  /\ norm1 = NoResult
  /\ norm2 = NoResult
  /\ npc = "session"
  /\ GatewayIdle

NextConfig == \E patch \in ConfigPatches : UpdateAIConfig(patch)

SpecConfig == InitConfig /\ [][NextConfig]_vars

----------------------------------------------------------------------------
(* The draft answers from the load on: App.tsx data initializer,           *)
(* updateAIDraftAnswer, generateAIQuestions and the delete confirmations.  *)

\* What is typed into an answer box: a text, nothing, blanks only, a text
\* over the limit, and blanks up to the limit followed by a text.
DraftTexts == DraftInputs \cup {EmptyStr, Str(AnswerMaxLen, 1, 0)}

\* The draft answers local storage may hold, at most one per question.
DraftLists ==
  {<<>>,
   <<Draft("c1", "g1", ShortText)>>,
   <<Draft("c1", "g1", EmptyStr), Draft("c1", "g2", ShortText)>>,
   <<Draft("c1", "g1", Str(2, 0, 0)), Draft("c2", "g3", ShortText)>>,
   <<NullDraft, Draft("c1", "g9", ShortText)>>}

\* What local storage may hold: a book with two chapters, their generated
\* questions and draft answers.
DraftSeeds ==
  {Blob(SeedBooks,
        Arr(<<StoreChapter("c1", "b1", Undef, nowISO(0)),
              StoreChapter("c2", "b1", Undef, nowISO(0))>>),
        Arr(<<>>), Arr(<<>>),
        SeedAi("b1", "c1",
               <<GQ("g1", "c1", ShortText), GQ("g2", "c1", ShortText),
                 GQ("g3", "c2", ShortText)>>,
               drafts, <<>>)) :
     drafts \in DraftLists}

InitDrafts ==
  /\ raw \in DraftSeeds \cup {ToRaw(createEmptyUserData)}
  /\ data = normalizeUserData(raw, 1).data
  /\ sessionUserId = "u1"
  /\ users = {"u1"}
  /\ blobs = [u \in Users |-> IF u = "u1" THEN Saved(data) ELSE Absent]
  /\ createdBy = [u \in Users |-> IF u = "u1" THEN EntityIds(data) ELSE {}]
  /\ aiBusy = "null"
  /\ aiErr = "null"
  /\ inflight = NoRequest
  /\ last = NoDelete
  /\ clock = 1
  /\ stored = [k |-> "json", value |-> raw]
  /\ norm1 = NoResult
  /\ norm2 = NoResult
  /\ npc = "session"
  /\ GatewayIdle

NextDrafts ==
  \/ \E questionId \in IdsOf(data.aiCoach.generatedQuestions), answer \in DraftTexts :
       UpdateAIDraftAnswer(questionId, answer)
  \/ \E chapterId \in IdsOf(data.chapters) \cup {""} : SelectAIChapter(chapterId)
  \/ GenerateStart
  \/ \E response \in {Rejected} \cup {Resolved(rows) : rows \in SeqsUpTo(QuestionRows, MaxRows)} :
       GenerateSettle(response)
  \/ \E bookId \in IdsOf(data.books) : DeleteBook(bookId)
  \/ \E ch \in Range(data.chapters) : DeleteChapter(ch)

SpecDrafts == InitDrafts /\ [][NextDrafts]_vars

----------------------------------------------------------------------------
(* The history from the load on: App.tsx data initializer, pushHistory by  *)
(* way of the operations that record an event, and the reset of the        *)
(* settings view.                                                          *)

\* SettingsView onDangerReset, confirmed.
DangerReset ==
  /\ data' = createEmptyUserData
  /\ UNCHANGED <<aiBusy, aiErr, inflight, clock>>
  /\ last' = NoDelete
  /\ StoreFrame

NullEvent ==
  [k |-> "null", id |-> Undef, type |-> Undef, bookId |-> Undef, chapterId |-> Undef,
   ts |-> Undef]
EventElems ==
  {HistoryEvent("h1", "book_created", "b1", Undef, "t0"),
   HistoryEvent("h2", "not_real", "b1", Undef, "t0"),
   HistoryEvent("h3", "export", Undef, Undef, "t0"),
   NullEvent}

\* A stored history of n events, the newest first: what n operations leave.
LongHistory(n) ==
  [i \in 1..n |-> HistoryEvent("h" \o ToString(i), "qa_updated", "b1", "c1", "t0")]

\* What local storage may hold: two books, a chapter and a history.
HistorySeeds ==
  {Blob(SeedBooks,
        Arr(<<StoreChapter("c1", "b1", Undef, nowISO(0))>>),
        Arr(<<>>), Arr(hs),
        SeedAi("b1", "c1", <<>>, <<>>, <<>>)) :
     hs \in SeqsUpTo(EventElems, MaxHistory)
             \cup {LongHistory(HistoryCap + n) : n \in -1..MaxOverCap}}

InitHistory ==
  /\ raw \in HistorySeeds
  /\ data = normalizeUserData(raw, 1).data
  /\ sessionUserId = "u1"
  /\ users = {"u1"}
  /\ blobs = [u \in Users |-> IF u = "u1" THEN Saved(data) ELSE Absent]
  /\ createdBy = [u \in Users |-> IF u = "u1" THEN EntityIds(data) ELSE {}]
  /\ aiBusy = "null"
  /\ aiErr = "null"
  /\ inflight = NoRequest
  /\ last = NoDelete
  /\ clock = 1
  /\ stored = [k |-> "json", value |-> raw]
  /\ norm1 = NoResult
  /\ norm2 = NoResult
  /\ npc = "session"
  /\ GatewayIdle

NextHistory ==
  \/ AddBook
  \/ \E bookId \in IdsOf(data.books) : CreateChapter(bookId)
  \/ \E bookId \in IdsOf(data.books) : DeleteBook(bookId)
  \/ \E ch \in Range(data.chapters) : DeleteChapter(ch)
  \/ DangerReset

SpecHistory == InitHistory /\ [][NextHistory]_vars

----------------------------------------------------------------------------
(* Generation on a loaded store: App.tsx data initializer and              *)
(* generateAIQuestions, with the selects and the chapter's delete          *)
(* confirmation in between.                                                *)

\* What local storage may hold: the stores with AI artifacts of two
\* chapters, and the stores with a history, short or at its cap.
GenerateSeeds == StoreSeeds \cup HistorySeeds

InitGenerate ==
  /\ raw \in GenerateSeeds
  /\ data = normalizeUserData(raw, 1).data
  /\ sessionUserId = "u1"
  /\ users = {"u1"}
  /\ blobs = [u \in Users |-> IF u = "u1" THEN Saved(data) ELSE Absent]
  /\ createdBy = [u \in Users |-> IF u = "u1" THEN EntityIds(data) ELSE {}]
  /\ aiBusy = "null"
  /\ aiErr = "null"
  /\ inflight = NoRequest
  /\ last = NoDelete
  /\ clock = 1
  /\ stored = [k |-> "json", value |-> raw]
  /\ norm1 = NoResult
  /\ norm2 = NoResult
  /\ npc = "session"
  /\ GatewayIdle

NextGenerate ==
  \/ GenerateStart
  \/ \E response \in {Rejected} \cup {Resolved(rows) : rows \in SeqsUpTo(QuestionRows, MaxRows)} :
       GenerateSettle(response)
  \/ \E bookId \in IdsOf(data.books) \cup {""} : SelectAIBook(bookId)
  \/ \E ch \in Range(data.chapters) : DeleteChapter(ch)

SpecGenerate == InitGenerate /\ [][NextGenerate]_vars

----------------------------------------------------------------------------
(* The gateway: server/index.mjs.  The requests of one caller are served   *)
(* one after the other, each passing the middleware in the order it is     *)
(* registered: origin check, express.json, rate limiter, route, and the    *)
(* error handler.                                                          *)

MaxOverLimit == 2    \* requests followed beyond the rate limit

GatewayFrame == UNCHANGED <<normVars, storeVars, parseVars, sessionVars>>

\* The bodies, headers and request lines drawn.
MalformedBody == [NoBody EXCEPT !.k = "malformed"]
ArrayBody == [NoBody EXCEPT !.k = "array"]
GoodAnswer(name) == AnswerRow(RawId(0, name, 0), ShortText, ShortText)
BaseBody ==
  Body("ollama", Undef, Undef, Num(3), "easy", "mixed", Arr(<<GoodAnswer("q1")>>))
HeaderKey == Str(0, 20, 0)
LongHeaderKey == Str(0, KeyMaxLen + 1, 0)
EnvKey == Str(0, 30, 0)
Paths == {"generate-questions", "grade"}

TransportRequests ==
  {Request(origin, method, path, body, UndefText) :
     origin \in {"none", "allowed", "denied"}, method \in {"POST", "OPTIONS"},
     path \in Paths, body \in {BaseBody, MalformedBody, NoBody}}
ValidationRequests ==
  {Request("allowed", "POST", "generate-questions",
           [BaseBody EXCEPT !.provider = provider, !.model = model], HeaderKey) :
     provider \in {"ollama", "OpenAI", "gemini", Undef, NumTok}, model \in ModelInputs}
  \cup
  {Request("allowed", "POST", path, [body EXCEPT !.ollamaBaseUrl = url], HeaderKey) :
     path \in Paths, body \in {BaseBody, ArrayBody, [BaseBody EXCEPT !.provider = "openai"]},
     url \in BaseUrlInputs}
RangeRequests ==
  {Request("none", "POST", "generate-questions",
           [BaseBody EXCEPT !.count = count, !.difficulty = difficulty, !.style = style],
           UndefText) :
     count \in {NaNVal, NullVal, Num(99), Num(0), NumH(5), NumStr(4)},
     difficulty \in {"nope", Undef}, style \in {"mixed", "nope"}}
KeyRequests ==
  {Request("none", "POST", path, [BaseBody EXCEPT !.provider = provider], header) :
     path \in Paths, provider \in {"ollama", "openai", " anthropic "},
     header \in {UndefText, EmptyStr, HeaderKey, LongHeaderKey}}
\* More rows than parseGradeRequest looks at: nulls, and one complete row
\* after them.
LateAnswer ==
  [i \in 1..(AnswersMax + 1) |-> IF i <= AnswersMax THEN NullAnswerRow ELSE GoodAnswer("q1")]
AnswerRequests ==
  {Request("none", "POST", "grade", [BaseBody EXCEPT !.answers = answers], UndefText) :
     answers \in {NotArr, Arr(<<>>), Arr(<<NullAnswerRow, GoodAnswer("q2")>>),
                  Arr(<<AnswerRow(RawId(1, "q1", 0), ShortText, Str(2, 0, 0))>>),
                  Arr(<<GoodAnswer("q1"), GoodAnswer("q2")>>),
                  Arr(<<AnswerRow(RawId(0, "q1", 1), Str(0, AnswerQuestionMaxLen + 1, 0),
                                  Str(0, AnswerMaxLen + 1, 0))>>),
                  Arr(LateAnswer)}}
Requests ==
  TransportRequests \cup ValidationRequests \cup RangeRequests \cup KeyRequests
    \cup AnswerRequests

Environments ==
  {NoEnv, [openai |-> EnvKey, anthropic |-> EnvKey],
   [openai |-> Str(2, 0, 0), anthropic |-> Str(1, KeyMaxLen + 1, 0)]}

InitGateway ==
  /\ env \in Environments
  /\ totalHits = 0
  /\ gpc = "idle"
  /\ req = NoReq
  /\ input = NoInput
  /\ upstream = NoCall
  /\ error = NoError
  /\ res = NoResponse
  /\ passed = NotPassed
  /\ ParseIdle
  /\ stored = [k |-> "absent", value |-> NonObjectBlob("null")]
  /\ raw = NonObjectBlob("null")
  /\ norm1 = NoResult
  /\ norm2 = NoResult
  /\ npc = "server"
  /\ clock = 1
  /\ StoreIdle

\* A request of the caller arrives.
Receive(r) ==
  /\ gpc = "idle"
  /\ totalHits < RATE_LIMIT_PER_MINUTE + MaxOverLimit
  /\ req' = r
  /\ gpc' = "origin"
  /\ UNCHANGED <<env, totalHits, input, upstream, error, res, passed>>
  /\ GatewayFrame

\* An origin middleware that lets every origin pass.
OriginCheckAnyOrigin ==
  /\ gpc = "origin"
  /\ passed' = [passed EXCEPT !.origin = TRUE]
  /\ IF req.origin # "none" /\ req.method = "OPTIONS"
     THEN gpc' = "done" /\ res' = Response(204, "none", <<>>)
     ELSE gpc' = "json" /\ res' = res
  /\ UNCHANGED <<env, totalHits, req, input, upstream, error>>
  /\ GatewayFrame

\* The origin middleware.
OriginCheck ==
  /\ gpc = "origin"
  /\ passed' = [passed EXCEPT !.origin = TRUE]
  /\ IF req.origin = "none" THEN gpc' = "json" /\ res' = res
     ELSE IF req.origin = "denied"
     THEN gpc' = "done" /\ res' = ErrorResponse(403, "Origin not allowed.")
     ELSE IF req.method = "OPTIONS"
     THEN gpc' = "done" /\ res' = Response(204, "none", <<>>)
     ELSE gpc' = "json" /\ res' = res
  /\ UNCHANGED <<env, totalHits, req, input, upstream, error>>
  /\ GatewayFrame

\* express.json({ strict: true }): a body that is no JSON object or array
\* is passed on as an error of the parser.
JsonBody ==
  /\ gpc = "json"
  /\ passed' = [passed EXCEPT !.json = TRUE]
  /\ IF req.body.k = "malformed"
     THEN gpc' = "error" /\ error' = OtherError("entity.parse.failed")
     ELSE gpc' = "limiter" /\ error' = error
  /\ UNCHANGED <<env, totalHits, req, input, upstream, res>>
  /\ GatewayFrame

RateLimitedText == "Too many AI requests. Please retry in a minute."

\* A limiter that lets one request more pass.
RateLimitOneMore ==
  /\ gpc = "limiter"
  /\ totalHits' = totalHits + 1
  /\ passed' = [passed EXCEPT !.limiter = TRUE]
  /\ IF totalHits + 1 > RATE_LIMIT_PER_MINUTE + 1
     THEN gpc' = "done" /\ res' = ErrorResponse(429, RateLimitedText)
     ELSE gpc' = "route" /\ res' = res
  /\ UNCHANGED <<env, req, input, upstream, error>>
  /\ GatewayFrame

\* aiLimiter on /api/ai: every request that gets here is counted, and
\* refused once the count exceeds max.
RateLimit ==
  /\ gpc = "limiter"
  /\ totalHits' = totalHits + 1
  /\ passed' = [passed EXCEPT !.limiter = TRUE]
  /\ IF totalHits + 1 > RATE_LIMIT_PER_MINUTE
     THEN gpc' = "done" /\ res' = ErrorResponse(429, RateLimitedText)
     ELSE gpc' = "route" /\ res' = res
  /\ UNCHANGED <<env, req, input, upstream, error>>
  /\ GatewayFrame

\* The call a route handler makes once the request and the key are valid:
\* providerJson goes to callOpenAI, to callAnthropic, or else to callOllama,
\* and each of them fetches once.
CallOf(provider, apiKey) ==
  [called |-> TRUE, calls |-> 1,
   provider |-> IF provider \in {"openai", "anthropic"} THEN provider ELSE "ollama",
   withKey |-> provider \in {"openai", "anthropic"},
   apiKey |-> apiKey, reply |-> NoReply]

\* A route handler up to the await of providerJson.
HandlerStart(parsedRequest) ==
  LET apiKey == resolveApiKey(req.apiKeyHeader, env, parsedRequest.value.provider)
  IN  /\ passed' = [passed EXCEPT !.validation = TRUE]
      /\ IF ~parsedRequest.ok
         THEN /\ gpc' = "error"
              /\ error' = parsedRequest.error
              /\ UNCHANGED <<input, upstream>>
         ELSE IF ~apiKey.ok
         THEN /\ gpc' = "error"
              /\ error' = apiKey.error
              /\ UNCHANGED <<input, upstream>>
         ELSE /\ gpc' = "awaiting"
              /\ input' = parsedRequest.value
              /\ upstream' = CallOf(parsedRequest.value.provider, apiKey.value)
              /\ error' = error
      /\ UNCHANGED <<env, totalHits, req, res>>
      /\ GatewayFrame

\* POST /api/ai/generate-questions
PostGenerateQuestions ==
  /\ gpc = "route"
  /\ req.method = "POST"
  /\ req.path = "generate-questions"
  /\ HandlerStart(parseGenerateRequest(req.body))

\* POST /api/ai/grade
PostGrade ==
  /\ gpc = "route"
  /\ req.method = "POST"
  /\ req.path = "grade"
  /\ HandlerStart(parseGradeRequest(req.body))

\* No route matches: the 404 handler.
NotFound ==
  /\ gpc = "route"
  /\ req.method # "POST"
  /\ gpc' = "done"
  /\ res' = ErrorResponse(404, "Not found.")
  /\ UNCHANGED <<env, totalHits, req, input, upstream, error, passed>>
  /\ GatewayFrame

\* A handler that calls the provider a second time when it was not reached.
HandlerResumeRetry(outcome, kind, items) ==
  /\ IF outcome.kind = "network" /\ upstream.calls < 2
     THEN /\ upstream' = [upstream EXCEPT !.calls = 2]
          /\ UNCHANGED <<gpc, error, res>>
     ELSE /\ upstream' = [upstream EXCEPT !.reply = outcome]
          /\ IF ~providerJson(outcome).ok
             THEN gpc' = "error" /\ error' = providerJson(outcome).error /\ res' = res
             ELSE IF items = <<>>
             THEN /\ gpc' = "error"
                  /\ error' = HttpError(502, "AI provider returned nothing usable.")
                  /\ res' = res
             ELSE gpc' = "done" /\ error' = error /\ res' = Response(200, kind, items)
  /\ UNCHANGED <<env, totalHits, req, input, passed>>
  /\ GatewayFrame

\* A route handler from the await on: `outcome` is how the provider call
\* ended, `items` what the handler normalized the provider's JSON to.
HandlerResume(outcome, kind, items) ==
  /\ upstream' = [upstream EXCEPT !.reply = outcome]
  /\ IF ~providerJson(outcome).ok
     THEN gpc' = "error" /\ error' = providerJson(outcome).error /\ res' = res
     ELSE IF items = <<>>
     THEN /\ gpc' = "error"
          /\ error' = HttpError(502, "AI provider returned nothing usable.")
          /\ res' = res
     ELSE gpc' = "done" /\ error' = error /\ res' = Response(200, kind, items)
  /\ UNCHANGED <<env, totalHits, req, input, passed>>
  /\ GatewayFrame

PostGenerateQuestionsResume(outcome) ==
  /\ gpc = "awaiting"
  /\ req.path = "generate-questions"
  /\ HandlerResume(outcome, "questions",
                   normalizeQuestions(outcome.parsed, input.count))

PostGradeResume(outcome) ==
  /\ gpc = "awaiting"
  /\ req.path = "grade"
  /\ HandlerResume(outcome, "results",
                   normalizeGrades(outcome.parsed, input.answers))

\* The error-handling middleware.
ErrorHandler ==
  /\ gpc = "error"
  /\ gpc' = "done"
  /\ res' = IF error.http THEN ErrorResponse(error.status, error.message)
            ELSE ErrorResponse(500, "Internal server error.")
  /\ UNCHANGED <<env, totalHits, req, input, upstream, error, passed>>
  /\ GatewayFrame

\* The response has gone out; the next request can be looked at.
Close ==
  /\ gpc = "done"
  /\ gpc' = "idle"
  /\ req' = NoReq
  /\ input' = NoInput
  /\ upstream' = NoCall
  /\ error' = NoError
  /\ res' = NoResponse
  /\ passed' = NotPassed
  /\ UNCHANGED <<env, totalHits>>
  /\ GatewayFrame

\* windowMs have gone by: the limiter forgets the caller's count.
WindowReset ==
  /\ gpc = "idle"
  /\ totalHits > 0
  /\ totalHits' = 0
  /\ UNCHANGED <<env, gpc, req, input, upstream, error, res, passed>>
  /\ GatewayFrame

\* How the provider call of a request in the pipeline ends.
GoodQuestions ==
  Parsed("obj", Arr(<<ModelQuestion(RawId(0, "q1", 0), ShortText, ShortText)>>), NotArr)
GoodGrades ==
  Parsed("obj", NotArr, Arr(<<ModelGrade(RawId(0, "q1", 0), Num(85))>>))
Outcomes ==
  {NetworkFailure, UpstreamStatus(429), InvalidJson, ModelJson(GoodQuestions),
   ModelJson(GoodGrades)}

NextGateway ==
  \/ \E r \in Requests : Receive(r)
  \/ OriginCheck
  \/ JsonBody
  \/ RateLimit
  \/ PostGenerateQuestions
  \/ PostGrade
  \/ NotFound
  \/ \E outcome \in Outcomes : PostGenerateQuestionsResume(outcome)
  \/ \E outcome \in Outcomes : PostGradeResume(outcome)
  \/ ErrorHandler
  \/ Close
  \/ WindowReset

SpecGateway == InitGateway /\ [][NextGateway]_vars

----------------------------------------------------------------------------
(* The return of the provider call: a request that passed validation is    *)
(* awaiting providerJson, and the provider answers with whatever it likes. *)

MaxModelRows == 2    \* longest questions / results array the provider returns

AllPassed == [origin |-> TRUE, json |-> TRUE, limiter |-> TRUE, validation |-> TRUE]

\* The requests followed to the provider: counts 1, 2 and 15, one or two
\* answers.
ReturnRequests ==
  {Request("allowed", "POST", "generate-questions", [BaseBody EXCEPT !.count = count],
           UndefText) : count \in {Num(1), Num(2), Num(99)}}
  \cup
  {Request("allowed", "POST", "grade", [BaseBody EXCEPT !.answers = answers], UndefText) :
     answers \in {Arr(<<GoodAnswer("q1")>>), Arr(<<GoodAnswer("q1"), GoodAnswer("q2")>>)}}
  \cup
  {Request("allowed", "POST", path, [BaseBody EXCEPT !.provider = "openai"], HeaderKey) :
     path \in Paths}

ParseOf(r) ==
  IF r.path = "grade" THEN parseGradeRequest(r.body) ELSE parseGenerateRequest(r.body)

\* What the provider may put into an id, a text and a score.
ModelIds == {NoId, RawId(0, "q1", 0), RawId(0, "q2", 0), RawId(1, "q1", 0)}
ModelQuestionRows ==
  {ModelQuestion(id, question, rubric) :
     id \in ModelIds,
     question \in {ShortText, Str(2, 0, 0), Str(1, QuestionMaxLen + 1, 0)},
     rubric \in {UndefText, Str(0, RubricMaxLen + 1, 0)}}
  \cup {NullModelRow}
ModelScores ==
  {Num(85), Num(150), Num(0 - 5), NumH(171), NaNVal, NullVal, TrueVal, NumStr(70)}
ModelGradeRows ==
  {ModelGrade(id, score) :
     id \in ModelIds \cup {RawId(0, "q9", 0)}, score \in ModelScores}
  \cup {NullModelRow}
\* The answers of a provider that are no success: a status that is no 2xx,
\* with or without an error message in the payload.
UpstreamStatuses == {304, 401, 500, 503}
UpstreamErrors ==
  {UpstreamError(status, payload) :
     status \in UpstreamStatuses,
     payload \in {NoPayload, ErrorString(ProviderText), ErrorString("   "),
                  ErrorObject(KeyEchoText)}}
QuestionOutcomes ==
  {ModelJson(Parsed("obj", Arr(rows), NotArr)) :
     rows \in SeqsUpTo(ModelQuestionRows, MaxModelRows)}
  \cup {ModelJson(Parsed("obj", NotArr, NotArr)), ModelJson(Parsed("null", NotArr, NotArr)),
        EmptyContent, InvalidJson, NetworkFailure}
  \cup UpstreamErrors
GradeOutcomes ==
  {ModelJson(Parsed("obj", NotArr, Arr(rows))) :
     rows \in SeqsUpTo(ModelGradeRows, MaxModelRows)}
  \cup {ModelJson(Parsed("obj", NotArr, NotArr)), NetworkFailure, UpstreamStatus(429)}
  \cup UpstreamErrors

InitProviderReturn ==
  /\ env = NoEnv
  /\ totalHits = 1
  /\ gpc = "awaiting"
  /\ req \in ReturnRequests
  /\ input = ParseOf(req).value
  /\ upstream = CallOf(ParseOf(req).value.provider,
                       resolveApiKey(req.apiKeyHeader, env, ParseOf(req).value.provider).value)
  /\ error = NoError
  /\ res = NoResponse
  /\ passed = AllPassed
  /\ ParseIdle
  /\ stored = [k |-> "absent", value |-> NonObjectBlob("null")]
  /\ raw = NonObjectBlob("null")
  /\ norm1 = NoResult
  /\ norm2 = NoResult
  /\ npc = "server"
  /\ clock = 1
  /\ StoreIdle

NextProviderReturn ==
  \/ \E outcome \in QuestionOutcomes : PostGenerateQuestionsResume(outcome)
  \/ \E outcome \in GradeOutcomes : PostGradeResume(outcome)
  \/ ErrorHandler

SpecProviderReturn == InitProviderReturn /\ [][NextProviderReturn]_vars

----------------------------------------------------------------------------
(* parseModelJson (server/index.mjs).  A text is a sequence of tokens: "{" *)
(* and "}", "F" for a fence ```, "1" for a number and "x" for a word of    *)
(* prose.  "{" "F" "1" "F" "}" stands for an object with one member, a     *)
(* string that holds a fenced 1.                                           *)

Tokens == {"{", "}", "F", "1", "x"}
Contents == SeqsUpTo(Tokens, MaxTokens) \ {<<>>}

\* JSON.parse(candidate) returns normally: the candidate is the number, the
\* empty object or the object with the one member.
Parses(candidate) ==
  candidate \in {<<"1">>, <<"{", "}">>, <<"{", "F", "1", "F", "}">>}

\* The places of token t in the text.
Places(text, t) == {i \in DOMAIN text : text[i] = t}
MinOf(S) == CHOOSE i \in S : \A j \in S : i <= j
MaxOf(S) == CHOOSE i \in S : \A j \in S : i >= j

\* text.match(/```(?:json)?\s*([\s\S]*?)```/i)?.[1]: what stands between the
\* first fence and the one after it; <<>> when there are no two fences.
FencedBlock(text) ==
  IF Cardinality(Places(text, "F")) < 2 THEN <<>>
  ELSE LET first == MinOf(Places(text, "F"))
           next == MinOf(Places(text, "F") \ {first})
       IN  SubSeq(text, first + 1, next - 1)

\* text.slice(firstBrace, lastBrace + 1), <<>> unless firstBrace >= 0 and
\* lastBrace > firstBrace.
BraceSlice(text) ==
  IF Places(text, "{") = {} \/ Places(text, "}") = {} THEN <<>>
  ELSE LET firstBrace == MinOf(Places(text, "{"))
           lastBrace == MaxOf(Places(text, "}"))
       IN  IF lastBrace > firstBrace THEN SubSeq(text, firstBrace, lastBrace) ELSE <<>>

\* The attempts parseModelJson collects, in the order it pushes them.
Attempts(text) ==
  <<text>>
    \o (IF FencedBlock(text) # <<>> THEN <<FencedBlock(text)>> ELSE <<>>)
    \o (IF BraceSlice(text) # <<>> THEN <<BraceSlice(text)>> ELSE <<>>)

\* for (const candidate of attempts) { try { return JSON.parse(candidate) } catch {} }
RECURSIVE firstParse(_)
firstParse(attempts) ==
  IF attempts = <<>> THEN Throw(HttpError(502, "Provider did not return valid JSON."))
  ELSE IF Parses(Head(attempts)) THEN Ok(Head(attempts))
  ELSE firstParse(Tail(attempts))

\* Attempts with the brace slice tried before the fenced block.
AttemptsBraceFirst(text) ==
  <<text>>
    \o (IF BraceSlice(text) # <<>> THEN <<BraceSlice(text)>> ELSE <<>>)
    \o (IF FencedBlock(text) # <<>> THEN <<FencedBlock(text)>> ELSE <<>>)

\* parseModelJson(content)
parseModelJsonBraceFirst(text) == firstParse(AttemptsBraceFirst(text))
parseModelJson(text) == firstParse(Attempts(text))

InitParse ==
  /\ content \in Contents
  /\ json = NoJson
  /\ env = NoEnv
  /\ totalHits = 0
  /\ gpc = "idle"
  /\ req = NoReq
  /\ input = NoInput
  /\ upstream = NoCall
  /\ error = NoError
  /\ res = NoResponse
  /\ passed = NotPassed
  /\ stored = [k |-> "absent", value |-> NonObjectBlob("null")]
  /\ raw = NonObjectBlob("null")
  /\ norm1 = NoResult
  /\ norm2 = NoResult
  /\ npc = "server"
  /\ clock = 1
  /\ StoreIdle

\* callOllama / callOpenAI / callAnthropic: return parseModelJson(content)
ParseModelJson ==
  /\ json = NoJson
  /\ json' = parseModelJson(content)
  /\ UNCHANGED <<content, normVars, storeVars, gatewayVars, sessionVars>>

NextParse == ParseModelJson

SpecParse == InitParse /\ [][NextParse]_vars

----------------------------------------------------------------------------
(* Properties of the load.                                                 *)

\* C1: normalizeUserData is idempotent: normalizing the normalized value
\* gives the same value again, for every stored blob.
C1_NormalizeIdempotent == npc = "renormalized" => norm2 = norm1

\* C2: loading never fails: whatever is stored, loadJson followed by
\* normalizeUserData returns a value and does not throw.
C2_LoadNeverThrows == npc \in {"normalized", "renormalized"} => ~norm1.threw

\* C3: in the value normalizeUserData returns, every chapter names a book of
\* the output, every QA, generated question, draft answer and feedback entry
\* names a chapter of the output, every draft answer names a generated
\* question of the output and every feedback entry names a book of the output.
C3_NormalizedReferentialIntegrity ==
  (npc \in {"normalized", "renormalized"} /\ ~norm1.threw) => ReferentialIntegrity(norm1.data)

\* A load that dropped a chapter of a missing book and, with it, a QA, a
\* generated question, a draft answer and a feedback entry of that chapter.
C3_Witness ==
  /\ npc = "normalized"
  /\ ~norm1.threw
  /\ ~ReferentialIntegrity(
        [books |-> raw.books.items, chapters |-> raw.chapters.items, qas |-> raw.qas.items,
         history |-> <<>>,
         aiCoach |-> [createEmptyAICoachData EXCEPT
                        !.generatedQuestions = raw.aiCoach.generatedQuestions.items,
                        !.draftAnswers = raw.aiCoach.draftAnswers.items,
                        !.feedbackHistory = raw.aiCoach.feedbackHistory.items]])
  /\ Len(norm1.data.chapters) = 1
  /\ Len(raw.chapters.items) = 2
  /\ Len(norm1.data.qas) < Len(raw.qas.items)
  /\ Len(norm1.data.aiCoach.generatedQuestions) = 1
  /\ Len(norm1.data.aiCoach.draftAnswers) = 1
  /\ Len(norm1.data.aiCoach.feedbackHistory) = 1

----------------------------------------------------------------------------
(* Properties of the store.                                                *)

\* Nothing in the store names a removed book or a removed chapter, and the
\* removed entities are gone.
NoReferenceTo(d, bookIds, chapterIds) ==
  /\ IdsOf(d.books) \cap bookIds = {}
  /\ \A ch \in Range(d.chapters) : ch.bookId \notin bookIds /\ ch.id \notin chapterIds
  /\ \A qa \in Range(d.qas) : qa.chapterId \notin chapterIds
  /\ \A q \in Range(d.aiCoach.generatedQuestions) : q.chapterId \notin chapterIds
  /\ \A a \in Range(d.aiCoach.draftAnswers) : a.chapterId \notin chapterIds
  /\ \A e \in Range(d.aiCoach.feedbackHistory) :
       e.chapterId \notin chapterIds /\ e.bookId \notin bookIds
  /\ d.aiCoach.selectedBookId \notin bookIds
  /\ d.aiCoach.selectedChapterId \notin chapterIds

\* C4: a confirmed book deletion, and likewise a confirmed chapter deletion,
\* that met a consistent store leaves, in the one state that follows it, no
\* chapter of the deleted book, no QA, generated question, draft answer or
\* feedback entry of a removed chapter, no feedback entry of the removed
\* book, and no selected pointer naming what was removed.
C4_DeleteCascades ==
  (last.op \in {"deleteBook", "deleteChapter"} /\ last.consistent)
    => NoReferenceTo(data, last.bookIds, last.chapterIds)

----------------------------------------------------------------------------
(* Properties of the provider's return.                                    *)

\* C5: a 200 response to a generate-questions request with validated count N
\* holds between 1 and N questions, each question text non-empty and at most
\* 500 characters, each rubric at most 2000 characters, and no two of its
\* questions have the same id, whatever the provider returned.
C5_GeneratedQuestionsWellFormed ==
  (res.status = 200 /\ res.kind = "questions") =>
    /\ Len(res.items) >= 1
    /\ Len(res.items) <= input.count
    /\ \A i \in DOMAIN res.items :
         /\ Length(res.items[i].question) >= 1
         /\ Length(res.items[i].question) <= QuestionMaxLen
         /\ Length(res.items[i].rubric) <= RubricMaxLen
    /\ \A i, j \in DOMAIN res.items : i # j => res.items[i].id # res.items[j].id

\* What C6 says of an upstream score: a number is rounded to an integer and
\* brought to the nearest bound of [0,100], a value that is no number (a
\* string such as "abc", undefined, an object) becomes 0; of a boolean, null
\* or a string of digits it says the range only.
ScoreAsClaimed(upstreamScore, score) ==
  /\ score \in ScoreMin..ScoreMax
  /\ (upstreamScore.k = "num" /\ upstreamScore.h > 2 * ScoreMax) => score = ScoreMax
  /\ (upstreamScore.k = "num" /\ upstreamScore.h < 2 * ScoreMin) => score = ScoreMin
  /\ (upstreamScore.k = "num" /\ upstreamScore.h >= 2 * ScoreMin
        /\ upstreamScore.h <= 2 * ScoreMax)
       => (2 * score - upstreamScore.h) \in {0, 1}
  /\ upstreamScore.k = "nan" => score = 0

\* The rows of the provider's reply that name an answer of the request.
KnownRows ==
  LET known == {a.questionId : a \in Range(input.answers)}
  IN  FilterSeq(upstream.reply.parsed.results.items,
                LAMBDA row: row.k = "obj" /\ row.questionId.k = "str"
                              /\ TrimId(row.questionId) \in known)

----------------------------------------------------------------------------
(* Properties of the gateway.                                              *)

\* The requests the limiter had counted in the window when the request
\* being served arrived.
HitsBefore == IF passed.limiter THEN totalHits - 1 ELSE totalHits
\* The limiter refused the request being served.
RefusedByLimiter == passed.limiter /\ ~passed.validation /\ res.status = 429

\* C7: once the limiter has counted the configured limit (40) of requests of
\* the caller in the window, no provider call is made for any further request
\* of the window and every further request that gets to the limiter is
\* answered 429; the limiter refuses no request before that, so the 41st
\* request is the first it refuses.  (A request stopped before the limiter,
\* by the origin check or by the body parser, is answered by these and is
\* not counted.)
C7_RateLimit ==
  gpc # "idle" =>
    /\ HitsBefore >= RATE_LIMIT_PER_MINUTE =>
         /\ ~upstream.called
         /\ gpc \notin {"route", "awaiting"}
         /\ (passed.limiter => res.status = 429 /\ gpc = "done")
    /\ RefusedByLimiter => HitsBefore >= RATE_LIMIT_PER_MINUTE

\* The 41st request of the window has been refused.
C7_Witness ==
  /\ gpc = "done"
  /\ totalHits = RATE_LIMIT_PER_MINUTE + 1
  /\ RefusedByLimiter
  /\ ~upstream.called
  /\ req.body = BaseBody

\* C8: a request with an Origin header that is not on the allow-list is
\* answered 403 by the origin check and by nothing else: its body is not
\* parsed, the limiter does not count it, it is not validated and no provider
\* call is made for it.
C8_DisallowedOriginFirst ==
  (gpc # "idle" /\ req.origin = "denied") =>
    /\ gpc \in {"origin", "done"}
    /\ ~passed.json
    /\ ~passed.limiter
    /\ ~passed.validation
    /\ input = NoInput
    /\ ~upstream.called
    /\ (gpc = "done" => res.status = 403)

\* A POST from a disallowed origin, with a body that is valid otherwise, has
\* been answered 403.
C8_Witness ==
  /\ gpc = "done"
  /\ req.origin = "denied"
  /\ req.method = "POST"
  /\ req.body = BaseBody
  /\ res.status = 403
  /\ passed = [NotPassed EXCEPT !.origin = TRUE]

\* The client-input errors C9 lists, of a request r under environment e.
MalformedShape(r) ==
  \/ r.body.k # "obj"
  \/ (r.path = "grade" /\ ~r.body.answers.arr)
OutOfRangeValue(r) ==
  /\ r.path = "generate-questions"
  /\ r.body.count.k = "num"
  /\ (r.body.count.h < 2 * ConfigCountMin \/ r.body.count.h > 2 * ConfigCountMax)
UnknownEnumValue(r) ==
  /\ r.path = "generate-questions"
  /\ \/ IsString(r.body.difficulty)
          /\ LowerTrimmed(r.body.difficulty) \notin {"easy", "medium", "hard", "mixed"}
     \/ IsString(r.body.style)
          /\ LowerTrimmed(r.body.style) \notin {"comprehension", "critical_thinking", "mixed"}
UnknownProvider(r) ==
  ~IsString(r.body.provider) \/ LowerTrimmed(r.body.provider) \notin PROVIDERS
MissingModel(r) == r.body.model \in {Undef, "", "   "}
MissingBaseUrl(r) == r.body.provider = "ollama" /\ r.body.ollamaBaseUrl \in {Undef, ""}
MissingApiKey(r, e) ==
  /\ IsString(r.body.provider)
  /\ LowerTrimmed(r.body.provider) \in {"openai", "anthropic"}
  /\ Length(TrimText(OrEmpty(r.apiKeyHeader))) = 0
  /\ Length(TrimText(OrEmpty(e[LowerTrimmed(r.body.provider)]))) = 0
ClientInputError(r, e) ==
  \/ MalformedShape(r)
  \/ OutOfRangeValue(r)
  \/ UnknownEnumValue(r)
  \/ UnknownProvider(r)
  \/ MissingModel(r)
  \/ MissingBaseUrl(r)
  \/ MissingApiKey(r, e)

\* C9: a POST to an AI route that the origin check and the limiter let pass
\* and that has a client-input error (malformed shape, out-of-range value,
\* unknown enum value, unknown provider, missing model, base URL or API key)
\* is answered 400, and no provider call is made for it.
C9_ClientInputErrorIs400 ==
  (/\ gpc = "done"
   /\ req.method = "POST"
   /\ req.origin # "denied"
   /\ ~RefusedByLimiter
   /\ ClientInputError(req, env))
    => (res.status = 400 /\ ~upstream.called)

\* The key of cloud provider `provider` the request being served resolves
\* to: the header's value if it has one, the environment's otherwise, trimmed
\* and cut to `cut` characters.
KeyOfRequest(provider, cut) ==
  LET header == TrimText(OrEmpty(req.apiKeyHeader))
      fromEnv == TrimText(OrEmpty(env[provider]))
  IN  SliceText(IF Length(header) > 0 THEN header ELSE fromEnv, cut)
\* The request being served is valid and its handler has looked for a key.
KeyLookedFor == gpc # "idle" /\ passed.validation /\ ParseOf(req).ok

\* C10, as the code has it: for a cloud provider the key sent upstream is the
\* X-Provider-Api-Key header's value when the header is non-empty and the
\* environment's key otherwise, in both cases trimmed and cut to its first 400
\* characters; when neither holds a key the request is answered 400 and no
\* provider call is made; for the local provider no key is sent.
C10_ApiKeyResolution ==
  KeyLookedFor =>
    LET provider == ParseOf(req).value.provider
    IN  IF provider = "ollama"
        THEN upstream.called /\ ~upstream.withKey /\ upstream.apiKey = EmptyStr
        ELSE IF Length(KeyOfRequest(provider, KeyMaxLen)) = 0
        THEN /\ ~upstream.called
             /\ gpc \in {"error", "done"}
             /\ (gpc = "done" => res.status = 400)
        ELSE /\ upstream.called
             /\ upstream.provider = provider
             /\ upstream.withKey
             /\ upstream.apiKey = KeyOfRequest(provider, KeyMaxLen)

\* C10 as stated: the key sent upstream is the header's value, or the
\* environment's key, whatever its length.
C10_AsStated ==
  (KeyLookedFor /\ upstream.called /\ upstream.withKey) =>
    upstream.apiKey
      = KeyOfRequest(upstream.provider,
                     Length(req.apiKeyHeader) + Length(env[upstream.provider]))

\* A header key of 401 characters has been sent upstream, cut to 400,
\* although the environment holds a key as well.
C10_Witness ==
  /\ KeyLookedFor
  /\ upstream.called
  /\ upstream.provider = "openai"
  /\ req.apiKeyHeader = LongHeaderKey
  /\ env.openai = EnvKey
  /\ upstream.apiKey = Str(0, KeyMaxLen, 0)

----------------------------------------------------------------------------
(* Properties of the gateway's errors.                                     *)

\* The provider call of the request being served failed: no connection, a
\* status that is no 2xx, no content, content that is no JSON, or JSON from
\* which no question / no result remains.
UpstreamFailed ==
  \/ upstream.reply.kind \in {"network", "status", "empty", "badjson"}
  \/ /\ upstream.reply.kind = "json"
     /\ IF req.path = "grade"
        THEN normalizeGrades(upstream.reply.parsed, input.answers) = <<>>
        ELSE normalizeQuestions(upstream.reply.parsed, input.count) = <<>>
\* A status with which a provider reports an error.
IsErrorStatus(status) == status >= 400 /\ status <= 599

\* C11: a request whose provider call failed is answered with an error whose
\* status is 502, or the provider's own status when the provider answered with
\* an error status; it is never answered 200 and never 500.
C11_UpstreamFailureStatus ==
  (gpc = "done" /\ UpstreamFailed) =>
    /\ res.kind = "error"
    /\ res.status # 200
    /\ res.status # 500
    /\ \/ res.status = 502
       \/ /\ upstream.reply.kind = "status"
          /\ IsErrorStatus(upstream.reply.status)
          /\ res.status = upstream.reply.status

\* C12: the message of an error response is one the gateway defines, never
\* text of the provider's payload, and no response holds the API key the
\* provider was called with.
C12_NoUpstreamDetail ==
  (gpc = "done" /\ res.kind = "error") =>
    /\ res.message \notin {ProviderText, KeyEchoText}
    /\ ~(upstream.withKey /\ res.message = KeyEchoText)

----------------------------------------------------------------------------
(* Properties of parseModelJson.                                           *)

\* The candidates as C13 names them, in its order: the whole text, the
\* content of the fenced block, the text from the first "{" to the last "}".
C13Candidates ==
  SelectSeq(<<content, FencedBlock(content), BraceSlice(content)>>,
            LAMBDA candidate : candidate # <<>>)
C13Parsing == {i \in DOMAIN C13Candidates : Parses(C13Candidates[i])}

\* C13: parseModelJson returns the parse of the first of these candidates
\* that parses, and fails, with the 502 error "Provider did not return valid
\* JSON.", exactly when none of them parses.
C13_FirstCandidateThatParses ==
  json # NoJson =>
    IF C13Parsing = {}
    THEN /\ ~json.ok
         /\ json.error = HttpError(502, "Provider did not return valid JSON.")
    ELSE /\ json.ok
         /\ json.value = C13Candidates[MinOf(C13Parsing)]

\* Prose, then an object with a string that holds a fenced number: the
\* text does not parse, its fenced block does and is returned, although the
\* brace slice parses as well.
C13_Witness ==
  /\ content = <<"x", "{", "F", "1", "F", "}">>
  /\ json.ok
  /\ json.value = <<"1">>

----------------------------------------------------------------------------
(* Properties of the grade request's validation.                           *)

\* A row of body.answers that has a questionId, a question and a
\* studentAnswer.
CompleteRow(row) ==
  /\ row.k = "obj"
  /\ row.questionId.k = "str" /\ row.questionId.name # ""
  /\ IsStringText(row.question) /\ Length(TrimText(row.question)) > 0
  /\ IsStringText(row.studentAnswer) /\ Length(TrimText(row.studentAnswer)) > 0
\* The rows of the grade request being served.
AnswerRowsOfRequest == IF req.body.answers.arr THEN req.body.answers.items ELSE <<>>
\* A grade request whose other fields are valid has been validated.
GradeValidated ==
  /\ gpc # "idle"
  /\ req.path = "grade"
  /\ passed.validation
  /\ parseCommon(req.body).ok
  /\ resolveApiKey(req.apiKeyHeader, env, parseCommon(req.body).value.provider).ok

\* C14: the validated answers of a grade request are its complete rows, in
\* request order, at most 20, each field non-empty and cut to 120 / 700 /
\* 10000 characters; the request is rejected, with 400, exactly when no row
\* remains, so a request with at least one complete row is accepted.
C14_GradeRequestValidation ==
  GradeValidated =>
    /\ upstream.called <=> (\E i \in DOMAIN AnswerRowsOfRequest :
                             CompleteRow(AnswerRowsOfRequest[i]))
    /\ (~upstream.called /\ gpc = "done") => res.status = 400
    /\ upstream.called =>
         /\ Len(input.answers) \in 1..AnswersMax
         /\ Len(input.answers) <= Len(AnswerRowsOfRequest)
         /\ \A i \in DOMAIN input.answers :
              /\ input.answers[i].questionId # ""
              /\ Length(input.answers[i].question) \in 1..AnswerQuestionMaxLen
              /\ Length(input.answers[i].studentAnswer) \in 1..AnswerMaxLen

----------------------------------------------------------------------------
(* Properties of the upstream call.                                        *)

\* The request being served has passed the origin check, the limiter,
\* validation and key resolution.
PassedAll ==
  /\ passed.origin /\ passed.json /\ passed.limiter /\ passed.validation
  /\ ParseOf(req).ok
  /\ resolveApiKey(req.apiKeyHeader, env, ParseOf(req).value.provider).ok

\* C15: for a request that passed all stages one upstream call has been made,
\* to the provider the request names, and it stays one when the call fails;
\* for a request that has not, or not yet, passed them no call has been made.
C15_ExactlyOneUpstreamCall ==
  gpc # "idle" =>
    IF PassedAll
    THEN /\ upstream.called
         /\ upstream.calls = 1
         /\ upstream.provider = LowerTrimmed(req.body.provider)
    ELSE ~upstream.called /\ upstream.calls = 0

\* The provider could not be reached; the request was answered 502 after
\* the one call.
C15_Witness ==
  /\ gpc = "done"
  /\ PassedAll
  /\ upstream.reply = NetworkFailure
  /\ upstream.calls = 1
  /\ upstream.provider = "anthropic"
  /\ res.status = 502

----------------------------------------------------------------------------
(* Properties of the AI coach's busy state.                                *)

\* In every state: the busy state is one of the three, it is idle exactly
\* when no request is pending, and at most one request is pending.
C16BusyStates ==
  /\ aiBusy \in {"null", "generate", "grade"}
  /\ inflight.pending \in {0, 1}
  /\ aiBusy = "null" <=> inflight.pending = 0
  /\ aiBusy # "null" => inflight.kind = aiBusy
\* In every step: the busy state leaves idle only with a request being
\* issued, returns to idle only with the pending request settling, does not
\* change otherwise, and no request is issued while it is not idle.
C16BusySteps ==
  /\ aiBusy' # aiBusy =>
       \/ aiBusy = "null" /\ inflight'.pending = inflight.pending + 1
       \/ aiBusy' = "null" /\ inflight'.pending = inflight.pending - 1
  /\ aiBusy # "null" => inflight'.pending <= inflight.pending

\* C16: the AI busy state is a machine of three states, idle, generating and
\* grading, that leaves idle only when a request is issued and returns only
\* when that request completes or fails; no request is issued while it is
\* not idle, so at most one request is in flight.
C16_BusyStateMachine == []C16BusyStates /\ [][C16BusySteps]_vars

\* A grade request is in flight.
C16_Witness ==
  /\ aiBusy = "grade"
  /\ inflight.pending = 1
  /\ inflight.answerRows # <<>>

\* In every step in which a request settles the busy state returns to
\* idle, and when the request failed the error string is set and the store
\* is left as it was.
C17SettleSteps ==
  inflight'.pending < inflight.pending =>
    /\ aiBusy' = "null"
    /\ inflight'.settled = "failed" => (aiErr' # "null" /\ data' = data)

\* C17: every AI request whose gateway call completes, with success or with
\* an error, resets the busy state to idle, so that a new request can be
\* issued; after a failure the error string is set and the store holds
\* nothing of the failed request.
C17_BusyResets ==
  /\ (aiBusy # "null") ~> (aiBusy = "null")
  /\ [][C17SettleSteps]_vars

\* A request has failed: the busy state is idle again and the error is set.
C17_Witness ==
  /\ inflight.settled = "failed"
  /\ aiBusy = "null"
  /\ aiErr = "Failed to generate AI questions."

----------------------------------------------------------------------------
(* C18: per-user data isolation.                                           *)

\* The books and chapters a store holds or refers to.
MentionedIds(d) ==
  (EntityIds(d)
     \cup {ch.bookId : ch \in Range(d.chapters)}
     \cup {qa.chapterId : qa \in Range(d.qas)}
     \cup {e.bookId : e \in Range(d.history)}
     \cup {e.chapterId : e \in Range(d.history)}
     \cup {q.chapterId : q \in Range(d.aiCoach.generatedQuestions)}
     \cup {a.chapterId : a \in Range(d.aiCoach.draftAnswers)}
     \cup {e.bookId : e \in Range(d.aiCoach.feedbackHistory)}
     \cup {e.chapterId : e \in Range(d.aiCoach.feedbackHistory)}) \ {Undef}

\* C18: the blob stored under a user's key only ever holds, and refers to,
\* books and chapters created during that user's own sessions: whatever the
\* registers, logins, logouts, data operations and late AI responses, no
\* blob mentions another user's book or chapter.
C18_PerUserIsolation ==
  \A u \in Users : MentionedIds(blobs[u].value) \subseteq createdBy[u]

----------------------------------------------------------------------------
(* C19: the selected pointers after normalization.                         *)

\* A load that returned.
Normalized == npc \in {"normalized", "renormalized"} /\ ~norm1.threw

\* The pointers as stored and as normalized.
StoredBookPointer == raw.aiCoach.selectedBookId
StoredChapterPointer == raw.aiCoach.selectedChapterId
SelectedBookPointer == norm1.data.aiCoach.selectedBookId
SelectedChapterPointer == norm1.data.aiCoach.selectedChapterId

\* Unset, or the id of a book / chapter of the output.
PointersLiveOrUnset ==
  /\ SelectedBookPointer \in IdsOf(norm1.data.books) \cup {Undef}
  /\ SelectedChapterPointer \in IdsOf(norm1.data.chapters) \cup {Undef}

\* The chapters of the output that belong to the selected book, in order.
ChaptersOfSelectedBook ==
  FilterSeq(norm1.data.chapters, LAMBDA ch: ch.bookId = SelectedBookPointer)

\* C19 as stated: each pointer is unset or the id of a live entity, and a
\* stored pointer that does not resolve to a live entity is left unset.
C19_AsStated ==
  Normalized =>
    /\ PointersLiveOrUnset
    /\ (StoredBookPointer # Undef /\ StoredBookPointer \notin IdsOf(norm1.data.books))
         => SelectedBookPointer = Undef
    /\ (StoredChapterPointer # Undef /\ StoredChapterPointer \notin IdsOf(norm1.data.chapters))
         => SelectedChapterPointer = Undef

\* C19, amended: each pointer is unset or the id of a live entity.  The
\* stored book pointer is kept when it is the id of a live book and cleared
\* otherwise.  The stored chapter pointer is kept when it is a live chapter
\* of the selected book; otherwise the pointer becomes the first live
\* chapter of the selected book, and is unset only when no book is selected
\* or the selected book has no chapter.
C19_SelectedPointers ==
  Normalized =>
    /\ PointersLiveOrUnset
    /\ SelectedBookPointer =
         IF StoredBookPointer \in IdsOf(norm1.data.books) THEN StoredBookPointer ELSE Undef
    /\ SelectedChapterPointer =
         IF SelectedBookPointer = Undef \/ ChaptersOfSelectedBook = <<>> THEN Undef
         ELSE IF StoredChapterPointer \in IdsOf(ChaptersOfSelectedBook)
         THEN StoredChapterPointer
         ELSE Head(ChaptersOfSelectedBook).id

\* A load whose stored chapter pointer named no live chapter, and whose
\* selected chapter is the first chapter of the selected book.
C19_Witness ==
  /\ npc = "normalized"
  /\ ~norm1.threw
  /\ StoredBookPointer = "b1"
  /\ StoredChapterPointer = "c9"
  /\ SelectedBookPointer = "b1"
  /\ SelectedChapterPointer = "c1"
  /\ Len(norm1.data.chapters) = 2

----------------------------------------------------------------------------
(* C20: the feedback history.                                              *)

FeedbackHistoryOf(d) == d.aiCoach.feedbackHistory

\* An integer from 0 to 100.
IsScore(v) == v.k = "num" /\ v.h % 2 = 0 /\ ScoreMin * 2 <= v.h /\ v.h <= ScoreMax * 2

FeedbackWellFormed(d) ==
  /\ Len(FeedbackHistoryOf(d)) <= FeedbackHistoryCap
  /\ \A e \in Range(FeedbackHistoryOf(d)) :
       /\ Len(e.results.items) >= 1
       /\ IsScore(e.averageScore)
       /\ \A r \in Range(e.results.items) :
            /\ IsString(r.questionId)
            /\ IsStringText(r.question)
            /\ IsStringText(r.studentAnswer)
            /\ IsScore(r.score)

\* A stored entry the load keeps: it names a live book and chapter and has
\* a result with the three strings.
StoredEntryKept(e) ==
  /\ e.k = "obj"
  /\ IsString(e.id)
  /\ e.bookId \in IdsOf(data.books)
  /\ e.chapterId \in IdsOf(data.chapters)
  /\ e.results.arr
  /\ \E r \in Range(e.results.items) :
       r.k = "obj" /\ IsString(r.questionId) /\ IsStringText(r.question)
         /\ IsStringText(r.studentAnswer)

\* The loaded history is the head of the stored one: of the entries kept,
\* the first 500, in their order.
C20LoadKeepsMostRecent ==
  LET kept == FilterSeq(raw.aiCoach.feedbackHistory.items, StoredEntryKept)
      out == FeedbackHistoryOf(data)
  IN  /\ Len(out) = Min(Len(kept), FeedbackHistoryCap)
      /\ \A i \in DOMAIN out : out[i].id = kept[i].id

\* A grading that succeeds puts one new entry at the head of the list,
\* keeps the others in order and drops what falls beyond the cap; a grading
\* that fails leaves the list as it is.
C20GradingPrepends ==
  (aiBusy = "grade" /\ aiBusy' = "null") =>
    LET old == FeedbackHistoryOf(data)
        new == FeedbackHistoryOf(data')
    IN  IF inflight'.settled = "ok"
        THEN /\ Len(new) = Min(Len(old) + 1, FeedbackHistoryCap)
             /\ Head(new).id \notin IdsOf(old)
             /\ Head(new).chapterId = inflight.chapterId
             /\ Tail(new) = SubSeq(old, 1, Len(new) - 1)
        ELSE new = old

\* C20: the feedback history loaded is the first 500 of the stored entries
\* that are kept; at all times every entry of the history has at least one
\* result, every result has a string questionId, question and studentAnswer
\* and an integer score from 0 to 100, averageScore is an integer from 0 to
\* 100 and the list has at most 500 entries; each successful grading
\* prepends one entry and keeps the list at no more than 500.
C20_FeedbackHistory ==
  /\ C20LoadKeepsMostRecent
  /\ [](FeedbackWellFormed(data))
  /\ [][C20GradingPrepends]_vars

\* A history loaded from 501 stored entries, 500 long, a successful grading
\* has put its entry at the head of, the oldest entry being dropped.
C20_Witness ==
  /\ Len(raw.aiCoach.feedbackHistory.items) = FeedbackHistoryCap + 1
  /\ inflight.settled = "ok"
  /\ Len(FeedbackHistoryOf(data)) = FeedbackHistoryCap
  /\ Head(FeedbackHistoryOf(data)).id = uid("aif", 2, 1)
  /\ FeedbackHistoryOf(data)[FeedbackHistoryCap].id = "f499"

----------------------------------------------------------------------------
(* C21: the AI configuration.                                              *)

LastConfigOf(d) == d.aiCoach.lastConfig

ConfigWellFormed(cfg) ==
  /\ cfg.count \in ConfigCountMin..ConfigCountMax
  /\ isAIDifficulty(cfg.difficulty)
  /\ isAIQuestionStyle(cfg.style)

\* The nearest integer of the number h/2, brought to the nearest bound.
NearestInRange(h) ==
  IF h > 2 * ConfigCountMax THEN ConfigCountMax
  ELSE IF h < 2 * ConfigCountMin THEN ConfigCountMin
  ELSE MathRound(h)

\* The load: an out-of-range count becomes the nearest bound, a count that
\* is no number becomes 6, a difficulty or style outside its enumeration
\* becomes mixed / comprehension.
C21Load ==
  LET cfg == raw.aiCoach.lastConfig
      out == LastConfigOf(data)
  IN  /\ out.count = IF cfg.count.k = "num" THEN NearestInRange(cfg.count.h)
                     ELSE defaultAICoachConfig.count
      /\ out.difficulty = IF isAIDifficulty(cfg.difficulty) THEN cfg.difficulty ELSE "mixed"
      /\ out.style = IF isAIQuestionStyle(cfg.style) THEN cfg.style ELSE "comprehension"

\* The store is as the load left it: nothing has been patched yet.
JustLoaded == data = normalizeUserData(raw, 1).data

\* A patch: a count that is a number is rounded and clamped, a member of an
\* enumeration is taken, and any other value leaves the field as it was.
C21Patches ==
  \A patch \in ConfigPatches :
    UpdateAIConfig(patch) =>
      LET prev == LastConfigOf(data)
          next == LastConfigOf(data')
      IN  /\ next.count = IF patch.hasCount /\ patch.count.k = "num"
                          THEN NearestInRange(patch.count.h) ELSE prev.count
          /\ next.difficulty = IF isAIDifficulty(patch.difficulty) THEN patch.difficulty
                               ELSE prev.difficulty
          /\ next.style = IF isAIQuestionStyle(patch.style) THEN patch.style
                          ELSE prev.style

\* C21: after the load and after any sequence of updateAIConfig patches,
\* lastConfig.count is an integer from 1 to 15 and difficulty and style are
\* members of their enumerations; the load replaces an out-of-range count
\* by the nearest bound, a non-numeric count by 6 and an invalid difficulty
\* or style by mixed / comprehension; an invalid patch value leaves the
\* previous value unchanged.
C21_AIConfig ==
  /\ [](JustLoaded => C21Load)
  /\ [](ConfigWellFormed(LastConfigOf(data)))
  /\ [][C21Patches]_vars

----------------------------------------------------------------------------
(* C22: the draft answers.                                                 *)

DraftsOf(d) == d.aiCoach.draftAnswers

IsBlank(text) == Length(TrimText(text)) = 0

DraftsWellFormed(d) ==
  /\ \A i, j \in DOMAIN DraftsOf(d) :
       (DraftsOf(d)[i].chapterId = DraftsOf(d)[j].chapterId
          /\ DraftsOf(d)[i].questionId = DraftsOf(d)[j].questionId) => i = j
  /\ \A a \in Range(DraftsOf(d)) :
       /\ IsStringText(a.answer)
       /\ ~IsBlank(a.answer)
       /\ a.chapterId \in IdsOf(d.chapters)
       /\ \E q \in Range(d.aiCoach.generatedQuestions) :
            q.id = a.questionId /\ q.chapterId = a.chapterId

\* The load keeps no stored draft whose answer is empty or blank.
C22Load ==
  \A a \in Range(DraftsOf(data)) :
    \E st \in Range(raw.aiCoach.draftAnswers.items) :
      /\ st.k = "obj"
      /\ st.chapterId = a.chapterId
      /\ st.questionId = a.questionId
      /\ ~IsBlank(st.answer)

\* An empty or blank answer typed for a question leaves no draft of it; any
\* other answer leaves exactly the draft typed, cut to the limit.
C22Updates ==
  \A questionId \in IdsOf(data.aiCoach.generatedQuestions), answer \in DraftTexts :
    UpdateAIDraftAnswer(questionId, answer) =>
      LET own == FilterSeq(DraftsOf(data'), LAMBDA a:
                   a.chapterId = aiSelectedChapter(data) /\ a.questionId = questionId)
      IN  IF IsBlank(SliceText(answer, AnswerMaxLen))
          THEN own = <<>>
          ELSE Len(own) = 1 /\ own[1].answer = SliceText(answer, AnswerMaxLen)

\* C22: in every state reached by updateAIDraftAnswer, generate and delete
\* operations there is at most one draft per (chapterId, questionId), no
\* draft has an empty or blank answer, and every draft names a chapter of
\* the store and a generated question of that chapter; setting a draft to
\* an empty answer removes it, and the load drops drafts with empty answers.
C22_DraftAnswers ==
  /\ C22Load
  /\ [](DraftsWellFormed(data))
  /\ [][C22Updates]_vars

\* A load dropped the stored draft with the empty answer and kept the other
\* one; two operations later the store, saved as it is, still holds that
\* draft alone.
C22_Witness ==
  /\ Len(raw.aiCoach.draftAnswers.items) = 2
  /\ raw.aiCoach.draftAnswers.items[1].answer = EmptyStr
  /\ clock = 3
  /\ Len(data.history) = 0
  /\ IdsOf(data.aiCoach.generatedQuestions) = {"g1", "g2", "g3"}
  /\ {a.questionId : a \in Range(DraftsOf(data))} = {"g2"}
  /\ blobs["u1"].value = data

----------------------------------------------------------------------------
(* C23: the history.                                                       *)

\* The load drops the events of unknown type and keeps the others in their
\* stored order.
C23Load ==
  data.history =
    FilterSeq(raw.history.items, LAMBDA e: e.k = "obj" /\ isKnownHistoryType(e.type))

\* A step leaves the history as it is or puts one new event in front of
\* the events recorded, which stay as they are.
C23Steps ==
  \/ data'.history = data.history
  \/ /\ Len(data'.history) = Len(data.history) + 1
     /\ Tail(data'.history) = data.history
     /\ Head(data'.history).id \notin IdsOf(data.history)

\* C23: the history is append-only: an operation that records an event adds
\* exactly one new event, no operation modifies or removes a recorded
\* event, and the load drops the events of unknown type and keeps all
\* others in their stored order.
C23_HistoryAppendOnly == C23Load /\ [][C23Steps]_vars

----------------------------------------------------------------------------
(* C24: the parsed count, difficulty and style of a generate request.      *)

\* A generate request has been parsed and accepted.
GenerateParsed == req.path = "generate-questions" /\ input # NoInput

\* C24: the parsed count of a generate request is an integer from 1 to 15,
\* the rounded and clamped count when the field is numeric and the default
\* 6 when it is absent or not numeric; the parsed difficulty and style are
\* members of their enumerations, an unrecognised value becoming mixed /
\* comprehension.
C24_GenerateInputs ==
  GenerateParsed =>
    /\ input.count \in ConfigCountMin..ConfigCountMax
    /\ input.count = IF req.body.count.k \in {"num", "numstr"}
                     THEN NearestInRange(req.body.count.h)
                     ELSE CountDefault
    /\ isAIDifficulty(input.difficulty)
    /\ input.difficulty = IF isAIDifficulty(req.body.difficulty) THEN req.body.difficulty
                          ELSE "mixed"
    /\ isAIQuestionStyle(input.style)
    /\ input.style = IF isAIQuestionStyle(req.body.style) THEN req.body.style
                     ELSE "comprehension"

----------------------------------------------------------------------------
(* C25: the selected chapter belongs to the selected book.                 *)

\* C25: after normalization, when the selected book is live and has a
\* chapter the selected-chapter pointer names a chapter of that book, the
\* stored pointer when it names one and the book's first chapter in stored
\* order otherwise; without a live selected book the chapter pointer is
\* unset; so a set chapter pointer always belongs to the selected book.
C25_ChapterOfSelectedBook ==
  Normalized =>
    /\ SelectedBookPointer = Undef => SelectedChapterPointer = Undef
    /\ (SelectedBookPointer # Undef /\ ChaptersOfSelectedBook # <<>>) =>
         /\ SelectedChapterPointer \in IdsOf(ChaptersOfSelectedBook)
         /\ StoredChapterPointer \in IdsOf(ChaptersOfSelectedBook)
              => SelectedChapterPointer = StoredChapterPointer
         /\ StoredChapterPointer \notin IdsOf(ChaptersOfSelectedBook)
              => SelectedChapterPointer = ChaptersOfSelectedBook[1].id
    /\ SelectedChapterPointer # Undef =>
         \E ch \in Range(norm1.data.chapters) :
           ch.id = SelectedChapterPointer /\ ch.bookId = SelectedBookPointer

\* A load whose stored chapter pointer named a chapter of another book: the
\* selected chapter is the first chapter of the selected book, which comes
\* second in the stored list.
C25_Witness ==
  /\ npc = "normalized"
  /\ ~norm1.threw
  /\ StoredBookPointer = "b1"
  /\ StoredChapterPointer = "c2"
  /\ Len(norm1.data.chapters) = 2
  /\ norm1.data.chapters[1].bookId = "b2"
  /\ norm1.data.chapters[1].id = "c2"
  /\ SelectedBookPointer = "b1"
  /\ SelectedChapterPointer = "c1"

----------------------------------------------------------------------------
(* C26: referential integrity of the AI artifacts under every interleaving.*)

\* C26: in every reachable state of the store, whatever the interleaving of
\* client operations and AI responses (a book or chapter may be deleted
\* while a request for its chapter is pending), each generated question,
\* draft answer and feedback entry names a chapter of the store, each
\* feedback entry names a book of the store, and the selected book and
\* chapter pointers are unset or name a book / chapter of the store.
C26_IntegrityUnderInterleaving ==
  /\ \A q \in Range(data.aiCoach.generatedQuestions) : q.chapterId \in IdsOf(data.chapters)
  /\ \A a \in Range(data.aiCoach.draftAnswers) : a.chapterId \in IdsOf(data.chapters)
  /\ \A e \in Range(data.aiCoach.feedbackHistory) :
       e.chapterId \in IdsOf(data.chapters) /\ e.bookId \in IdsOf(data.books)
  /\ data.aiCoach.selectedBookId \in IdsOf(data.books) \cup {Undef}
  /\ data.aiCoach.selectedChapterId \in IdsOf(data.chapters) \cup {Undef}

----------------------------------------------------------------------------
(* C27: the ids of the generated questions of a chapter.                   *)

GeneratedOf(d) == d.aiCoach.generatedQuestions

\* C27: in the client store no two generated questions of the same chapter
\* have the same id, whatever ids the responses merged carried.
C27_QuestionIdsDistinctPerChapter ==
  \A i, j \in DOMAIN GeneratedOf(data) :
    (GeneratedOf(data)[i].chapterId = GeneratedOf(data)[j].chapterId
       /\ GeneratedOf(data)[i].id = GeneratedOf(data)[j].id) => i = j

\* A generation has just succeeded whose response carried the id q1 twice:
\* the chapter has two questions, the first called q1 and the second by an
\* id made on the client.
C27_Witness ==
  /\ inflight.settled = "ok"
  /\ \E c \in IdsOf(data.chapters) :
       LET own == FilterSeq(GeneratedOf(data), LAMBDA q: q.chapterId = c)
       IN  /\ Len(own) = 2
           /\ own[1].id = "q1"
           /\ own[2].id = uid("gq", clock - 1, 5)

----------------------------------------------------------------------------
(* C28: what a generation changes.                                         *)

\* The artifacts of the chapters other than c.
OthersOf(artifacts, c) == FilterSeq(artifacts, LAMBDA x: x.chapterId # c)

\* A pending generation settles in this step.
GenerationSettles == aiBusy = "generate" /\ aiBusy' = "null"

C28Frame ==
  GenerationSettles =>
    IF inflight'.settled = "ok"
    THEN /\ data'.books = data.books
         /\ data'.chapters = data.chapters
         /\ data'.qas = data.qas
         /\ data'.aiCoach.feedbackHistory = data.aiCoach.feedbackHistory
         /\ data'.aiCoach.lastConfig = data.aiCoach.lastConfig
         /\ OthersOf(GeneratedOf(data'), inflight.chapterId)
              = OthersOf(GeneratedOf(data), inflight.chapterId)
         /\ OthersOf(DraftsOf(data'), inflight.chapterId)
              = OthersOf(DraftsOf(data), inflight.chapterId)
         /\ \A a \in Range(DraftsOf(data')) : a.chapterId # inflight.chapterId
         /\ \E q \in Range(GeneratedOf(data')) : q.chapterId = inflight.chapterId
         /\ \A q \in Range(GeneratedOf(data')) :
              q.chapterId = inflight.chapterId => q.createdAt = nowISO(clock)
         /\ data'.aiCoach.selectedBookId = inflight.bookId
         /\ data'.aiCoach.selectedChapterId = inflight.chapterId
         /\ Len(data'.history) = Len(data.history) + 1
         /\ Tail(data'.history) = data.history
         /\ Head(data'.history).type = "ai_questions_generated"
    ELSE data' = data

\* C28: a successful generation for chapter C replaces C's generated
\* questions and removes C's draft answers, and leaves the questions and
\* drafts of every other chapter, the feedback history, the books, the
\* chapters and the QAs as they are; it sets the selected pointers to C and
\* its book and appends one history event; a failed generation leaves the
\* whole store as it is.
C28_GenerationFrame == [][C28Frame]_vars

----------------------------------------------------------------------------
(* C29: the results of a grading carry each question once.                 *)

\* No two rows of `results` carry the same questionId.
OneResultPerQuestion(results) ==
  \A i, j \in DOMAIN results : results[i].questionId = results[j].questionId => i = j

\* The 200 response of /api/ai/grade, against the answers of its request.
C29Gateway ==
  (req.path = "grade" /\ res.status = 200) =>
    /\ OneResultPerQuestion(res.items)
    /\ Len(res.items) <= Len(input.answers)

\* The feedback entry gradeAIAnswers stores when a grading settles.
C29Client ==
  (aiBusy = "grade" /\ aiBusy' = "null" /\ inflight'.settled = "ok") =>
    LET entry == Head(data'.aiCoach.feedbackHistory)
    IN  /\ OneResultPerQuestion(entry.results.items)
        /\ Len(entry.results.items) <= Len(inflight.answerRows)

\* C29: a grade response of the gateway, and the feedback entry the client
\* stores from it, hold at most one result per questionId and never more
\* results than the request had answers, also when the provider returns
\* several rows with the same questionId.
C29_OneResultPerQuestion == [](C29Gateway) /\ [][C29Client]_vars

----------------------------------------------------------------------------
(* C30: the base-URL check and the cloud providers.                        *)

CloudProviders == {"openai", "anthropic"}

\* The request being served names one of the two cloud providers.
CloudRequest ==
  /\ req.body.k = "obj"
  /\ readProvider(req.body.provider).ok
  /\ readProvider(req.body.provider).value \in CloudProviders

\* The request being served, with its base-URL field left out.
WithoutBaseUrl == [req.body EXCEPT !.ollamaBaseUrl = Undef]

\* Validation or the key lookup turns that request down too.
RejectedWithoutBaseUrl ==
  \/ ~ParseOf([req EXCEPT !.body = WithoutBaseUrl]).ok
  \/ ~resolveApiKey(req.apiKeyHeader, env, readProvider(req.body.provider).value).ok

\* C30: the base-URL check applies to the local provider only: a request
\* for a cloud provider that is answered 400 would have been answered 400
\* without its base-URL field as well, and the answer does not speak of the
\* base URL.
C30_BaseUrlLocalOnly ==
  (CloudRequest /\ res.status = 400) =>
    /\ RejectedWithoutBaseUrl
    /\ res.message \notin {"Invalid Ollama base URL.",
                           "Ollama base URL must use http or https."}

====
